---- MODULE Spec2Model ----
(***************************************************************************)
(* State-machine model of src/telegram_bot.py: the Google-Sheets backed    *)
(* order bot.  The four worksheets and the process-wide dictionaries are   *)
(* the state; every handler branch (handle_message, handle_location,       *)
(* handle_callback_query, handle_admin_callback) is one action.            *)
(***************************************************************************)
EXTENDS Integers, Sequences, FiniteSets, TLC

(***************************************************************************)
(* Bounds of the model.                                                    *)
(***************************************************************************)
MaxRows   == 2      \* rows the Haridorlar sheet may grow to
MaxOrders == 2      \* rows the Buyurtmalar sheet may grow to
MaxCart   == 2      \* line items a cart list may grow to
MantBits  == 24     \* significand width kept by the model of Python floats

(***************************************************************************)
(* Identities and input alphabets.                                         *)
(***************************************************************************)
Customers == {"u1", "u2"}
ADMINS    == <<"adm">>

TXT_SAVE  == "Ma'lumotlaringizni saqlang"
TXT_EDIT  == "Shaxsiy ma'lumotlarni o'zgartirish"
TXT_ORDER == "Mahsulot buyurtma qilish"
TXT_WITHDRAW == "Bonusni yechish"

ValidRoles == {"Do'kon egasi", "Qurilish kompaniyasi", "Uy egasi", "Usta"}

\* Inputs the environment sends at each step (a few accepted, one rejected).
NameInputs  == {"Aziz", "Bek", ""}
PhoneInputs == {"+998911111111", "12345"}
RoleInputs  == {"Usta", "Uy egasi", "Boss"}
QtyInputs   == {"2", "-3", "abc"}
Locations   == {<<"40.1", "70.5">>}

\* re.match(r"^\+998\d{9}$", text)
PhoneMatches(text) == text \in {"+998901234567", "+998911111111"}

\* int(text): the parsed value, or a ValueError
IsInt(text) == text \in {"1", "2", "-3"}
IntOf(text) == CASE text = "1" -> 1 [] text = "2" -> 2 [] text = "-3" -> 0 - 3

\* f"Lat:{location.latitude} Lon:{location.longitude}"
FormatAddress(loc) ==
    CASE loc = <<"41.3", "69.2">> -> "Lat:41.3 Lon:69.2"
      [] loc = <<"40.1", "70.5">> -> "Lat:40.1 Lon:70.5"

(***************************************************************************)
(* Python dictionaries: functions on the set of keys present.              *)
(***************************************************************************)
Put(d, k, v) == [x \in (DOMAIN d) \cup {k} |-> IF x = k THEN v ELSE d[x]]
Del(d, k)    == [x \in (DOMAIN d) \ {k} |-> d[x]]
Has(d, k)    == k \in DOMAIN d
EmptyDict    == [x \in {} |-> 0]

(***************************************************************************)
(* Python floats.  Values are kept as integers; FRound rounds to MantBits  *)
(* significant bits, ties to even, as IEEE-754 does with 53 bits.          *)
(***************************************************************************)
RECURSIVE Pow2(_)
Pow2(n) == IF n = 0 THEN 1 ELSE 2 * Pow2(n - 1)

RECURSIVE FRoundAt(_, _)
FRoundAt(x, ulp) ==
    IF x < ulp * Pow2(MantBits)
    THEN LET q == x \div ulp
             r == x % ulp
         IN  IF 2 * r < ulp THEN q * ulp
             ELSE IF 2 * r > ulp THEN (q + 1) * ulp
             ELSE IF q % 2 = 0 THEN q * ulp ELSE (q + 1) * ulp
    ELSE FRoundAt(x, 2 * ulp)

FRound(x) == IF x < 0 THEN 0 - FRoundAt(0 - x, 1) ELSE FRoundAt(x, 1)
FAdd(a, b) == FRound(a + b)
FMul(a, b) == FRound(a * b)
\* x * (p / 100) for the percentages of the model, which divide evenly
FPct(x, p) == FRound((x \div 100) * p + ((x % 100) * p) \div 100)

(***************************************************************************)
(* State.                                                                  *)
(***************************************************************************)
VARIABLES
    haridorlar,          \* HARIDORLAR_SHEET rows below the header
    mahsulotlar,         \* MAHSULOTLAR_SHEET rows below the header
    guruhlar,            \* GURUHLAR_SHEET rows below the header
    buyurtmalar,         \* BUYURTMALAR_SHEET rows below the header
    USER_STATE,          \* user id -> step and scratch fields
    CART,                \* user id -> list of line items
    BONUS_REQUESTS,      \* user id -> requested amount
    USER_SELECTED_GROUP, \* user id -> group name
    USER_CACHE,          \* user id -> cached customer dict
    PRODUCT_CACHE,       \* cache key -> list of products
    GROUP_CACHE,         \* None, or the cached list of group names
    ORDER_CACHE,         \* user id -> staged order (temp_order)
    shown,               \* recipient -> callback tokens of the buttons sent to it
    last,                \* the event handled last and the replies it sent
    hist                 \* history: what the pending requests were made from

sheets == <<haridorlar, mahsulotlar, guruhlar, buyurtmalar>>
dicts  == <<USER_STATE, CART, BONUS_REQUESTS, USER_SELECTED_GROUP, ORDER_CACHE>>
caches == <<USER_CACHE, PRODUCT_CACHE, GROUP_CACHE>>
vars   == <<sheets, dicts, caches, shown, last, hist>>

EmptyStr == <<>>     \* the string "" of an edit_request cell

(***************************************************************************)
(* Haridorlar sheet and USER_CACHE.                                        *)
(***************************************************************************)
\* the cells A..H of one Haridorlar row
UserRow(user_id, name, phone, address, role, bonus, edit_request, edit_confirmed) ==
    [id |-> user_id, name |-> name, phone |-> phone, address |-> address,
     role |-> role, bonus |-> bonus, edit_request |-> edit_request,
     edit_confirmed |-> edit_confirmed]

\* a customer dict; has_edit tells whether the keys "edit_request" and
\* "edit_confirmed" are present in it
UserDict(name, phone, address, role, bonus, has_edit, edit_request, edit_confirmed) ==
    [name |-> name, phone |-> phone, address |-> address, role |-> role,
     bonus |-> bonus, has_edit |-> has_edit, edit_request |-> edit_request,
     edit_confirmed |-> edit_confirmed]

\* the loop "for row in all_values[1:]: if row[0] == str(user_id)": first match
RowIndex(sheet, user_id) ==
    LET hits == {i \in 1..Len(sheet) : sheet[i].id = user_id}
    IN  IF hits = {} THEN 0 ELSE CHOOSE i \in hits : \A j \in hits : i <= j

RowToUser(row) ==
    UserDict(row.name, row.phone, row.address, row.role, FRound(row.bonus),
             TRUE, row.edit_request, row.edit_confirmed)

\* get_user_data: whether it returns a dict, the dict, and the cache afterwards
GetUserFound(sheet, cache, user_id) ==
    Has(cache, user_id) \/ RowIndex(sheet, user_id) # 0

GetUserData(sheet, cache, user_id) ==
    IF Has(cache, user_id) THEN cache[user_id]
    ELSE RowToUser(sheet[RowIndex(sheet, user_id)])

GetUserCache(sheet, cache, user_id) ==
    IF Has(cache, user_id) \/ RowIndex(sheet, user_id) = 0 THEN cache
    ELSE Put(cache, user_id, RowToUser(sheet[RowIndex(sheet, user_id)]))

\* save_user_data: appends a row, caches the dict
SaveUserData(sheet, cache, user_id, data) ==
    [ok    |-> TRUE,
     sheet |-> Append(sheet, UserRow(user_id, data.name, data.phone, data.address,
                                     data.role, data.bonus, EmptyStr, "")),
     cache |-> Put(cache, user_id, data)]

\* update_user_data
UpdateUserData(sheet, cache, user_id, data, edit_request) ==
    LET i == RowIndex(sheet, user_id)
    IN  IF i # 0
        THEN [ok    |-> TRUE,
              sheet |-> [sheet EXCEPT ![i] =
                            UserRow(user_id, data.name, data.phone, data.address,
                                    data.role, data.bonus,
                                    IF data.has_edit THEN data.edit_request ELSE EmptyStr,
                                    IF data.has_edit THEN data.edit_confirmed ELSE "")],
              cache |-> Put(cache, user_id, data)]
        ELSE IF edit_request
             THEN SaveUserData(sheet, cache, user_id, data)
             ELSE [ok |-> FALSE, sheet |-> sheet, cache |-> cache]

\* update_bonus
UpdateBonus(sheet, cache, user_id, bonus_amount) ==
    LET i == RowIndex(sheet, user_id)
        new_bonus == FAdd(FRound(sheet[i].bonus), bonus_amount)
    IN  IF i # 0
        THEN [ok    |-> TRUE,
              sheet |-> [sheet EXCEPT ![i].bonus = new_bonus],
              cache |-> IF Has(cache, user_id)
                        THEN [cache EXCEPT ![user_id].bonus = new_bonus]
                        ELSE cache]
        ELSE [ok |-> FALSE, sheet |-> sheet, cache |-> cache]

(***************************************************************************)
(* Mahsulotlar / Guruhlar sheets and their caches.                         *)
(***************************************************************************)
RECURSIVE SelectSeq2(_, _)
\* the rows of a sheet whose group cell equals group_name, in sheet order
SelectSeq2(rows, group_name) ==
    IF rows = <<>> THEN <<>>
    ELSE IF Head(rows).group_name = group_name
         THEN <<Head(rows)>> \o SelectSeq2(Tail(rows), group_name)
         ELSE SelectSeq2(Tail(rows), group_name)

\* get_products(group_name): the list returned, and the cache afterwards.
\* group_name "" is falsy, so its cache key is "all".
CacheKey(group_name) == IF group_name = "" THEN "all" ELSE group_name

GetProducts(sheet, cache, group_name) ==
    IF Has(cache, CacheKey(group_name)) THEN cache[CacheKey(group_name)]
    ELSE SelectSeq2(sheet, group_name)

GetProductsCache(sheet, cache, group_name) ==
    IF Has(cache, CacheKey(group_name)) THEN cache
    ELSE Put(cache, CacheKey(group_name), SelectSeq2(sheet, group_name))

\* next((p for p in products if p["name"] == product_name), None)
ProductIndex(products, product_name) ==
    LET hits == {i \in 1..Len(products) : products[i].name = product_name}
    IN  IF hits = {} THEN 0 ELSE CHOOSE i \in hits : \A j \in hits : i <= j

\* get_groups(): list(set(...)) of the non-empty group cells
GetGroups(sheet, cache) ==
    IF cache.set THEN cache.val ELSE {sheet[i] : i \in 1..Len(sheet)} \ {""}

GetGroupsCache(sheet, cache) ==
    IF cache.set THEN cache ELSE [set |-> TRUE, val |-> GetGroups(sheet, cache)]

(***************************************************************************)
(* Order totals.                                                           *)
(***************************************************************************)
RECURSIVE SumFrom(_, _)
\* sum(...) of a list of floats: left to right, starting from acc
SumFrom(acc, xs) == IF xs = <<>> THEN acc ELSE SumFrom(FAdd(acc, Head(xs)), Tail(xs))

\* sum(item["price"] * item["quantity"] for item in cart)
TotalSum(cart) ==
    SumFrom(0, [i \in 1..Len(cart) |-> FMul(cart[i].price, cart[i].quantity)])

\* the bonus sum without the condition on the role
TotalBonusAnyRole(cart, role) ==
    SumFrom(0, [i \in 1..Len(cart) |->
                   FPct(FMul(cart[i].price, cart[i].quantity), cart[i].bonus_percent)])

\* sum(price * quantity * (bonus_percent / 100) ...) if role == "Usta" else 0
TotalBonus(cart, role) ==
    IF role = "Usta"
    THEN SumFrom(0, [i \in 1..Len(cart) |->
                        FPct(FMul(cart[i].price, cart[i].quantity), cart[i].bonus_percent)])
    ELSE 0

\* cart_text: one line per item (name, quantity, unit price, line total)
CartText(cart) ==
    [i \in 1..Len(cart) |->
        <<cart[i].name, cart[i].quantity, cart[i].price,
          FMul(cart[i].price, cart[i].quantity)>>]

\* the Buyurtmalar row save_order appends
OrderRow(user_id, user_data, address, group_name, cart) ==
    [user_id |-> user_id, user_name |-> user_data.name, phone |-> user_data.phone,
     address |-> address, date |-> "today", group_name |-> group_name,
     cart_text |-> CartText(cart), total_sum |-> TotalSum(cart),
     bonus_sum |-> TotalBonus(cart, user_data.role), confirmed |-> "No"]

\* save_order reading each item's price and bonus percent from the product
\* sheet at the time of the call in place of the values held in the cart
SaveOrderRepriced(hsheet, osheet, cache, user_id, cart, address, group_name) ==
    IF ~GetUserFound(hsheet, cache, user_id)
    THEN [ok |-> FALSE, haridorlar |-> hsheet, buyurtmalar |-> osheet, cache |-> cache]
    ELSE LET rows(item)  == {i \in 1..Len(mahsulotlar) : mahsulotlar[i].name = item.name}
             now(item)   == IF rows(item) = {} THEN item
                            ELSE LET row == mahsulotlar[CHOOSE i \in rows(item) : TRUE]
                                 IN  [item EXCEPT !.price = row.price,
                                                  !.bonus_percent = row.bonus_percent]
             repriced    == [i \in 1..Len(cart) |-> now(cart[i])]
             user_data   == GetUserData(hsheet, cache, user_id)
             cache1      == GetUserCache(hsheet, cache, user_id)
             total_bonus == TotalBonus(repriced, user_data.role)
             upd         == UpdateBonus(hsheet, cache1, user_id, total_bonus)
         IN  [ok          |-> TRUE,
              buyurtmalar |-> Append(osheet,
                                  OrderRow(user_id, user_data, address, group_name, repriced)),
              haridorlar  |-> IF total_bonus > 0 THEN upd.sheet ELSE hsheet,
              cache       |-> IF total_bonus > 0 THEN upd.cache ELSE cache1]

\* save_order: [ok |-> FALSE] stands for "return None"
SaveOrder(hsheet, osheet, cache, user_id, cart, address, group_name) ==
    IF ~GetUserFound(hsheet, cache, user_id)
    THEN [ok |-> FALSE, haridorlar |-> hsheet, buyurtmalar |-> osheet, cache |-> cache]
    ELSE LET user_data   == GetUserData(hsheet, cache, user_id)
             cache1      == GetUserCache(hsheet, cache, user_id)
             total_bonus == TotalBonus(cart, user_data.role)
             upd         == UpdateBonus(hsheet, cache1, user_id, total_bonus)
         IN  [ok          |-> TRUE,
              buyurtmalar |-> Append(osheet,
                                  OrderRow(user_id, user_data, address, group_name, cart)),
              haridorlar  |-> IF total_bonus > 0 THEN upd.sheet ELSE hsheet,
              cache       |-> IF total_bonus > 0 THEN upd.cache ELSE cache1]

(***************************************************************************)
(* Session helpers.                                                        *)
(***************************************************************************)
\* a USER_STATE entry; keys a step never sets hold "" (or 0)
StepState(step) ==
    [step |-> step, name |-> "", phone |-> "", address |-> "", bonus |-> 0,
     current_name |-> "", current_phone |-> "", current_address |-> "",
     current_role |-> "", product_name |-> ""]

Ev(ev, user_id, inp, out) == [ev |-> ev, u |-> user_id, inp |-> inp, out |-> out]

Btn(kind, arg) == <<kind, arg>>
Show(recipient, tokens) == [shown EXCEPT ![recipient] = @ \cup tokens]

\* the inline keyboard sent with a product list
ProductButtons(products) ==
    {Btn("product", products[i].name) : i \in 1..Len(products)}
        \cup {Btn("confirm_cart", "")}

InStep(user_id, step) ==
    Has(USER_STATE, user_id) /\ USER_STATE[user_id].step = step

(***************************************************************************)
(* handle_message, customer track (user_id not in ADMINS).                 *)
(* Each action is one branch of the if/elif chain; get_user_data at the    *)
(* top of the handler fills USER_CACHE in every branch.                    *)
(***************************************************************************)
Found(user_id) == GetUserFound(haridorlar, USER_CACHE, user_id)
Data(user_id)  == GetUserData(haridorlar, USER_CACHE, user_id)
Cache1(user_id) == GetUserCache(haridorlar, USER_CACHE, user_id)

\* "if not user_data and text != SAVE": every other text of an unregistered user
MsgUnregistered(u, text) ==
    /\ ~Found(u)
    /\ text # TXT_SAVE
    /\ last' = Ev("MsgUnregistered", u, text, <<"register_first">>)
    /\ UNCHANGED <<hist, sheets, dicts, caches, shown>>

\* text == "Ma'lumotlaringizni saqlang"
MsgSave(u) ==
    /\ USER_STATE' = Put(USER_STATE, u, StepState("name"))
    /\ USER_CACHE' = Cache1(u)
    /\ last' = Ev("MsgSave", u, TXT_SAVE, <<"ask_name">>)
    /\ UNCHANGED <<hist, sheets, CART, BONUS_REQUESTS, USER_SELECTED_GROUP, ORDER_CACHE,
                   PRODUCT_CACHE, GROUP_CACHE, shown>>

\* text == "Shaxsiy ma'lumotlarni o'zgartirish"
MsgEdit(u) ==
    /\ Found(u)
    /\ USER_STATE' = Put(USER_STATE, u,
          [StepState("edit_name") EXCEPT
              !.bonus = Data(u).bonus, !.current_name = Data(u).name,
              !.current_phone = Data(u).phone, !.current_address = Data(u).address,
              !.current_role = Data(u).role])
    /\ USER_CACHE' = Cache1(u)
    /\ last' = Ev("MsgEdit", u, TXT_EDIT, <<"ask_edit_name">>)
    /\ UNCHANGED <<hist, sheets, CART, BONUS_REQUESTS, USER_SELECTED_GROUP, ORDER_CACHE,
                   PRODUCT_CACHE, GROUP_CACHE, shown>>

\* CART[user_id] = [] binds a new list: a staged order keeps the old one
Unalias(orders, u) ==
    IF Has(orders, u) THEN [orders EXCEPT ![u].alias = FALSE] ELSE orders

\* text == "Mahsulot buyurtma qilish"
MsgOrder(u) ==
    /\ Found(u)
    /\ CART' = Put(CART, u, <<>>)
    /\ ORDER_CACHE' = Unalias(ORDER_CACHE, u)
    /\ USER_CACHE' = Cache1(u)
    /\ GROUP_CACHE' = GetGroupsCache(guruhlar, GROUP_CACHE)
    /\ LET groups == GetGroups(guruhlar, GROUP_CACHE)
       IN  IF groups = {}
           THEN /\ shown' = shown
                /\ last' = Ev("MsgOrder", u, TXT_ORDER, <<"no_groups">>)
           ELSE /\ shown' = Show(u, {Btn("group", g) : g \in groups})
                /\ last' = Ev("MsgOrder", u, TXT_ORDER, <<"choose_group">>)
    /\ UNCHANGED <<hist, sheets, USER_STATE, BONUS_REQUESTS, USER_SELECTED_GROUP, PRODUCT_CACHE>>

\* the withdrawal branch without the test "user_data['bonus'] <= 0"
MsgWithdrawAnyBalance(u, sent) ==
    /\ Found(u)
    /\ Data(u).role = "Usta"
    /\ USER_CACHE' = Cache1(u)
    /\ BONUS_REQUESTS' = Put(BONUS_REQUESTS, u, Data(u).bonus)
    /\ IF sent
       THEN /\ shown' = Show(ADMINS[1], {Btn("approve_bonus", u), Btn("reject_bonus", u)})
            /\ last' = Ev("MsgWithdraw", u, TXT_WITHDRAW, <<"withdraw_sent">>)
       ELSE /\ shown' = shown
            /\ last' = Ev("MsgWithdraw", u, TXT_WITHDRAW, <<"network_error">>)
    /\ UNCHANGED <<hist, sheets, USER_STATE, CART, USER_SELECTED_GROUP, ORDER_CACHE,
                   PRODUCT_CACHE, GROUP_CACHE>>

\* text == "Bonusni yechish" and user_data["role"] == "Usta"
MsgWithdraw(u, sent) ==
    /\ Found(u)
    /\ Data(u).role = "Usta"
    /\ USER_CACHE' = Cache1(u)
    /\ IF Data(u).bonus <= 0
       THEN /\ last' = Ev("MsgWithdraw", u, TXT_WITHDRAW, <<"no_bonus">>)
            /\ UNCHANGED <<BONUS_REQUESTS, shown>>
       ELSE /\ BONUS_REQUESTS' = Put(BONUS_REQUESTS, u, Data(u).bonus)
            /\ IF sent
               THEN /\ shown' = Show(ADMINS[1], {Btn("approve_bonus", u), Btn("reject_bonus", u)})
                    /\ last' = Ev("MsgWithdraw", u, TXT_WITHDRAW, <<"withdraw_sent">>)
               ELSE /\ shown' = shown
                    /\ last' = Ev("MsgWithdraw", u, TXT_WITHDRAW, <<"network_error">>)
    /\ UNCHANGED <<hist, sheets, USER_STATE, CART, USER_SELECTED_GROUP, ORDER_CACHE,
                   PRODUCT_CACHE, GROUP_CACHE>>

\* state["step"] == "name"
StepName(u, text) ==
    /\ Found(u)
    /\ InStep(u, "name")
    /\ USER_CACHE' = Cache1(u)
    /\ IF text = ""
       THEN /\ USER_STATE' = USER_STATE
            /\ last' = Ev("StepName", u, text, <<"name_empty">>)
       ELSE /\ USER_STATE' = [USER_STATE EXCEPT ![u].name = text, ![u].step = "phone"]
            /\ last' = Ev("StepName", u, text, <<"ask_phone">>)
    /\ UNCHANGED <<hist, sheets, CART, BONUS_REQUESTS, USER_SELECTED_GROUP, ORDER_CACHE,
                   PRODUCT_CACHE, GROUP_CACHE, shown>>

\* state["step"] == "phone"
StepPhone(u, text) ==
    /\ Found(u)
    /\ InStep(u, "phone")
    /\ USER_CACHE' = Cache1(u)
    /\ IF PhoneMatches(text)
       THEN /\ USER_STATE' = [USER_STATE EXCEPT ![u].phone = text, ![u].step = "location"]
            /\ last' = Ev("StepPhone", u, text, <<"ask_location">>)
       ELSE /\ USER_STATE' = USER_STATE
            /\ last' = Ev("StepPhone", u, text, <<"phone_invalid">>)
    /\ UNCHANGED <<hist, sheets, CART, BONUS_REQUESTS, USER_SELECTED_GROUP, ORDER_CACHE,
                   PRODUCT_CACHE, GROUP_CACHE, shown>>

\* state["step"] == "role": on a valid role save_user_data appends the row
StepRole(u, text) ==
    /\ Found(u)
    /\ InStep(u, "role")
    /\ IF text \in ValidRoles
       THEN LET st   == USER_STATE[u]
                data == UserDict(st.name, st.phone, st.address, text, 0, FALSE, EmptyStr, "")
                res  == SaveUserData(haridorlar, Cache1(u), u, data)
            IN  /\ Len(haridorlar) < MaxRows
                /\ haridorlar' = res.sheet
                /\ USER_CACHE' = res.cache
                /\ USER_STATE' = Del(USER_STATE, u)
                /\ last' = Ev("StepRole", u, text, <<"saved">>)
       ELSE /\ USER_CACHE' = Cache1(u)
            /\ last' = Ev("StepRole", u, text, <<"role_invalid">>)
            /\ UNCHANGED <<haridorlar, USER_STATE>>
    /\ UNCHANGED <<hist, mahsulotlar, guruhlar, buyurtmalar, CART, BONUS_REQUESTS,
                   USER_SELECTED_GROUP, ORDER_CACHE, PRODUCT_CACHE, GROUP_CACHE, shown>>

\* CART[user_id].append(item): the staged order's "cart" is the same list
\* object until CART[user_id] is bound anew, so it grows with it
AppendAliased(orders, u, item) ==
    IF Has(orders, u) /\ orders[u].alias
    THEN [orders EXCEPT ![u].cart = Append(@, item)]
    ELSE orders

\* state["step"] == "quantity"
StepQuantity(u, text, sent) ==
    /\ Found(u)
    /\ InStep(u, "quantity")
    /\ USER_CACHE' = Cache1(u)
    /\ IF ~IsInt(text)
       THEN /\ last' = Ev("StepQuantity", u, text, <<"quantity_not_int">>)
            /\ UNCHANGED <<USER_STATE, CART, ORDER_CACHE, PRODUCT_CACHE, shown>>
       ELSE IF IntOf(text) <= 0
       THEN /\ last' = Ev("StepQuantity", u, text, <<"quantity_not_positive">>)
            /\ UNCHANGED <<USER_STATE, CART, ORDER_CACHE, PRODUCT_CACHE, shown>>
       ELSE
         LET product_name == USER_STATE[u].product_name
             group_name == IF Has(USER_SELECTED_GROUP, u) THEN USER_SELECTED_GROUP[u] ELSE ""
             products   == GetProducts(mahsulotlar, PRODUCT_CACHE, group_name)
             i          == ProductIndex(products, product_name)
             item       == [name |-> product_name, quantity |-> IntOf(text),
                            price |-> products[i].price,
                            bonus_percent |-> products[i].bonus_percent]
         IN  /\ PRODUCT_CACHE' = GetProductsCache(mahsulotlar, PRODUCT_CACHE, group_name)
             /\ IF i = 0
                THEN /\ USER_STATE' = Del(USER_STATE, u)
                     /\ last' = Ev("StepQuantity", u, text, <<"product_not_found">>)
                     /\ UNCHANGED <<CART, ORDER_CACHE, shown>>
                ELSE IF ~Has(CART, u)
                THEN \* KeyError, caught by "except Exception"
                     /\ last' = Ev("StepQuantity", u, text, <<"error">>)
                     /\ UNCHANGED <<USER_STATE, CART, ORDER_CACHE, shown>>
                ELSE /\ Len(CART[u]) < MaxCart
                     /\ CART' = [CART EXCEPT ![u] = Append(@, item)]
                     /\ ORDER_CACHE' = AppendAliased(ORDER_CACHE, u, item)
                     /\ IF sent
                        THEN /\ shown' = Show(u, ProductButtons(products))
                             /\ USER_STATE' = Del(USER_STATE, u)
                             /\ last' = Ev("StepQuantity", u, text, <<"added">>)
                        ELSE /\ last' = Ev("StepQuantity", u, text, <<"network_error">>)
                             /\ UNCHANGED <<USER_STATE, shown>>
    /\ UNCHANGED <<hist, sheets, BONUS_REQUESTS, USER_SELECTED_GROUP, GROUP_CACHE>>

\* state["step"] == "edit_name"
StepEditName(u, text) ==
    /\ Found(u)
    /\ InStep(u, "edit_name")
    /\ USER_CACHE' = Cache1(u)
    /\ IF text = ""
       THEN /\ USER_STATE' = USER_STATE
            /\ last' = Ev("StepEditName", u, text, <<"name_empty">>)
       ELSE /\ USER_STATE' = [USER_STATE EXCEPT ![u].name = text, ![u].step = "edit_phone"]
            /\ last' = Ev("StepEditName", u, text, <<"ask_edit_phone">>)
    /\ UNCHANGED <<hist, sheets, CART, BONUS_REQUESTS, USER_SELECTED_GROUP, ORDER_CACHE,
                   PRODUCT_CACHE, GROUP_CACHE, shown>>

\* state["step"] == "edit_phone"
StepEditPhone(u, text) ==
    /\ Found(u)
    /\ InStep(u, "edit_phone")
    /\ USER_CACHE' = Cache1(u)
    /\ IF PhoneMatches(text) \/ text = USER_STATE[u].current_phone
       THEN /\ USER_STATE' = [USER_STATE EXCEPT ![u].phone = text,
                                                ![u].step = "edit_location"]
            /\ last' = Ev("StepEditPhone", u, text, <<"ask_edit_location">>)
       ELSE /\ USER_STATE' = USER_STATE
            /\ last' = Ev("StepEditPhone", u, text, <<"phone_invalid">>)
    /\ UNCHANGED <<hist, sheets, CART, BONUS_REQUESTS, USER_SELECTED_GROUP, ORDER_CACHE,
                   PRODUCT_CACHE, GROUP_CACHE, shown>>

\* f"{name}|{phone}|{address}|{text}": the four fields joined by "|"
EditRequestStr(name, phone, address, role) == <<name, phone, address, role>>

\* where a send may fail in a handler: 0 none, 1 the message to the
\* counterpart, 2 the reply to the sender
FailPoints == {0, 1, 2}

\* state["step"] == "edit_role": update_user_data(user_id, data, edit_request=True)
StepEditRole(u, text, fail) ==
    /\ Found(u)
    /\ InStep(u, "edit_role")
    /\ IF text \in ValidRoles \/ text = USER_STATE[u].current_role
       THEN LET st   == USER_STATE[u]
                data == UserDict(st.name, st.phone, st.address, text, st.bonus, TRUE,
                                 EditRequestStr(st.name, st.phone, st.address, text), "No")
                res  == UpdateUserData(haridorlar, Cache1(u), u, data, TRUE)
            IN  /\ Len(res.sheet) <= MaxRows
                /\ haridorlar' = res.sheet
                /\ USER_CACHE' = res.cache
                /\ shown' = IF fail = 1 THEN shown
                            ELSE Show(ADMINS[1], {Btn("approve_edit", u), Btn("reject_edit", u)})
                /\ USER_STATE' = IF fail = 0 THEN Del(USER_STATE, u) ELSE USER_STATE
                /\ hist' = [hist EXCEPT !.edit_orig[u] =
                               <<[name |-> st.current_name, phone |-> st.current_phone,
                                  address |-> st.current_address, role |-> st.current_role,
                                  bonus |-> st.bonus]>>]
                /\ last' = Ev("StepEditRole", u, text,
                              IF fail = 0 THEN <<"edit_sent">> ELSE <<"network_error">>)
       ELSE /\ fail = 0
            /\ USER_CACHE' = Cache1(u)
            /\ last' = Ev("StepEditRole", u, text, <<"role_invalid">>)
            /\ UNCHANGED <<haridorlar, USER_STATE, shown, hist>>
    /\ UNCHANGED <<mahsulotlar, guruhlar, buyurtmalar, CART, BONUS_REQUESTS,
                   USER_SELECTED_GROUP, ORDER_CACHE, PRODUCT_CACHE, GROUP_CACHE>>

(***************************************************************************)
(* handle_location.  The handler has no try/except of its own and does no  *)
(* registration check.                                                     *)
(***************************************************************************)
\* step == "location"
LocRegister(u, loc) ==
    /\ InStep(u, "location")
    /\ USER_STATE' = [USER_STATE EXCEPT ![u].address = FormatAddress(loc), ![u].step = "role"]
    /\ last' = Ev("LocRegister", u, FormatAddress(loc), <<"ask_role">>)
    /\ UNCHANGED <<hist, sheets, CART, BONUS_REQUESTS, USER_SELECTED_GROUP, ORDER_CACHE,
                   caches, shown>>

\* temp_order built with the customer's stored address in place of the
\* address of the location message
TempOrderStoredAddress(user_id, user_data, address, group_name, cart) ==
    [user_id |-> user_id, user_name |-> user_data.name, phone |-> user_data.phone,
     address |-> user_data.address, group_name |-> group_name, cart_text |-> CartText(cart),
     total_sum |-> TotalSum(cart), bonus_sum |-> TotalBonus(cart, user_data.role),
     cart |-> cart, alias |-> TRUE]

\* temp_order; alias records that "cart" is the list object CART[user_id]
TempOrder(user_id, user_data, address, group_name, cart) ==
    [user_id |-> user_id, user_name |-> user_data.name, phone |-> user_data.phone,
     address |-> address, group_name |-> group_name, cart_text |-> CartText(cart),
     total_sum |-> TotalSum(cart), bonus_sum |-> TotalBonus(cart, user_data.role),
     cart |-> cart, alias |-> TRUE]

\* step == "order_location": stage the order
LocOrder(u, loc, fail) ==
    /\ InStep(u, "order_location")
    /\ IF ~Found(u)
       THEN /\ fail = 0
            /\ last' = Ev("LocOrder", u, FormatAddress(loc), <<"customer_not_found">>)
            /\ UNCHANGED <<USER_STATE, ORDER_CACHE, USER_CACHE, shown, hist>>
       ELSE IF ~Has(CART, u)
       THEN \* KeyError: CART[user_id]
            /\ fail = 0
            /\ USER_CACHE' = Cache1(u)
            /\ last' = Ev("LocOrder", u, FormatAddress(loc), <<"error">>)
            /\ UNCHANGED <<USER_STATE, ORDER_CACHE, shown, hist>>
       ELSE LET group_name == IF Has(USER_SELECTED_GROUP, u)
                              THEN USER_SELECTED_GROUP[u] ELSE ""
            IN  /\ USER_CACHE' = Cache1(u)
                /\ ORDER_CACHE' = Put(ORDER_CACHE, u,
                       TempOrder(u, Data(u), FormatAddress(loc), group_name, CART[u]))
                /\ shown' = IF fail = 1 THEN shown
                            ELSE Show(ADMINS[1], {Btn("confirm_order", u), Btn("reject_order", u)})
                /\ USER_STATE' = IF fail = 0 THEN Del(USER_STATE, u) ELSE USER_STATE
                /\ hist' = [hist EXCEPT !.staged[u] =
                               IF @ < MaxOrders THEN @ + 1 ELSE @]
                /\ last' = Ev("LocOrder", u, FormatAddress(loc),
                              IF fail = 0 THEN <<"order_sent">> ELSE <<"error">>)
    /\ UNCHANGED <<sheets, CART, BONUS_REQUESTS, USER_SELECTED_GROUP,
                   PRODUCT_CACHE, GROUP_CACHE>>

\* step == "edit_location"
LocEdit(u, loc) ==
    /\ InStep(u, "edit_location")
    /\ USER_STATE' = [USER_STATE EXCEPT ![u].address = FormatAddress(loc),
                                        ![u].step = "edit_role"]
    /\ last' = Ev("LocEdit", u, FormatAddress(loc), <<"ask_edit_role">>)
    /\ UNCHANGED <<hist, sheets, CART, BONUS_REQUESTS, USER_SELECTED_GROUP, ORDER_CACHE,
                   caches, shown>>

(***************************************************************************)
(* handle_callback_query: the customer's inline buttons.                   *)
(***************************************************************************)
\* data.startswith("group_")
CbGroup(u, group_name) ==
    /\ Btn("group", group_name) \in shown[u]
    /\ USER_SELECTED_GROUP' = Put(USER_SELECTED_GROUP, u, group_name)
    /\ PRODUCT_CACHE' = GetProductsCache(mahsulotlar, PRODUCT_CACHE, group_name)
    /\ LET products == GetProducts(mahsulotlar, PRODUCT_CACHE, group_name)
       IN  IF products = <<>>
           THEN /\ shown' = shown
                /\ last' = Ev("CbGroup", u, group_name, <<"no_products">>)
           ELSE /\ shown' = Show(u, ProductButtons(products))
                /\ last' = Ev("CbGroup", u, group_name, <<"choose_product">>)
    /\ UNCHANGED <<hist, sheets, USER_STATE, CART, BONUS_REQUESTS, ORDER_CACHE,
                   USER_CACHE, GROUP_CACHE>>

\* data.startswith("product_")
CbProduct(u, product_name) ==
    /\ Btn("product", product_name) \in shown[u]
    /\ USER_STATE' = Put(USER_STATE, u,
                         [StepState("quantity") EXCEPT !.product_name = product_name])
    /\ last' = Ev("CbProduct", u, product_name, <<"ask_quantity">>)
    /\ UNCHANGED <<hist, sheets, CART, BONUS_REQUESTS, USER_SELECTED_GROUP, ORDER_CACHE,
                   caches, shown>>

\* confirm_cart testing "user_id not in CART" in place of "not CART.get(user_id)"
CbConfirmCartAbsentOnly(u) ==
    /\ Btn("confirm_cart", "") \in shown[u]
    /\ IF ~Has(CART, u)
       THEN /\ USER_STATE' = USER_STATE
            /\ last' = Ev("CbConfirmCart", u, "", <<"cart_empty">>)
       ELSE /\ USER_STATE' = Put(USER_STATE, u, StepState("order_location"))
            /\ last' = Ev("CbConfirmCart", u, "", <<"ask_order_location">>)
    /\ UNCHANGED <<hist, sheets, CART, BONUS_REQUESTS, USER_SELECTED_GROUP, ORDER_CACHE,
                   caches, shown>>

\* data == "confirm_cart"
CbConfirmCart(u) ==
    /\ Btn("confirm_cart", "") \in shown[u]
    /\ IF ~Has(CART, u) \/ CART[u] = <<>>
       THEN /\ USER_STATE' = USER_STATE
            /\ last' = Ev("CbConfirmCart", u, "", <<"cart_empty">>)
       ELSE /\ USER_STATE' = Put(USER_STATE, u, StepState("order_location"))
            /\ last' = Ev("CbConfirmCart", u, "", <<"ask_order_location">>)
    /\ UNCHANGED <<hist, sheets, CART, BONUS_REQUESTS, USER_SELECTED_GROUP, ORDER_CACHE,
                   caches, shown>>

(***************************************************************************)
(* handle_admin_callback: the buttons sent to the administrator.  A button *)
(* stays pressable once shown (a second press may already be queued, and   *)
(* the order list sends the same tokens again).                            *)
(***************************************************************************)
Admin == ADMINS[1]

\* the three "del" statements with "del CART[order_user_id]" left out
AfterConfirmDelsKeepCart(u) ==
    /\ ORDER_CACHE' = Del(ORDER_CACHE, u)
    /\ CART' = CART
    /\ USER_SELECTED_GROUP' = Del(USER_SELECTED_GROUP, u)

\* "del d[k]" of the three dictionaries in turn; a KeyError ends the run
AfterConfirmDels(u) ==
    /\ ORDER_CACHE' = Del(ORDER_CACHE, u)
    /\ CART' = Del(CART, u)
    /\ USER_SELECTED_GROUP' =
          IF Has(CART, u) THEN Del(USER_SELECTED_GROUP, u) ELSE USER_SELECTED_GROUP

DelsRaise(u) == ~Has(CART, u) \/ ~Has(USER_SELECTED_GROUP, u)

\* data.startswith("confirm_order_")
ConfirmOrder(u, fail) ==
    /\ Btn("confirm_order", u) \in shown[Admin]
    /\ IF ~Has(ORDER_CACHE, u)
       THEN /\ fail = 0
            /\ last' = Ev("ConfirmOrder", u, "", <<"order_not_found">>)
            /\ UNCHANGED <<haridorlar, buyurtmalar, USER_CACHE, ORDER_CACHE, CART,
                           USER_SELECTED_GROUP>>
       ELSE LET order == ORDER_CACHE[u]
                res   == SaveOrder(haridorlar, buyurtmalar, USER_CACHE, order.user_id,
                                   order.cart, order.address, order.group_name)
            IN  IF ~res.ok
                THEN /\ fail = 0
                     /\ last' = Ev("ConfirmOrder", u, "", <<"order_not_saved">>)
                     /\ UNCHANGED <<haridorlar, buyurtmalar, USER_CACHE, ORDER_CACHE, CART,
                                    USER_SELECTED_GROUP>>
                ELSE /\ Len(buyurtmalar) < MaxOrders
                     /\ haridorlar' = res.haridorlar
                     /\ buyurtmalar' = res.buyurtmalar
                     /\ USER_CACHE' = res.cache
                     /\ IF fail # 0
                        THEN /\ last' = Ev("ConfirmOrder", u, "", <<"network_error">>)
                             /\ UNCHANGED <<ORDER_CACHE, CART, USER_SELECTED_GROUP>>
                        ELSE /\ AfterConfirmDels(u)
                             /\ last' = Ev("ConfirmOrder", u, "",
                                           IF DelsRaise(u) THEN <<"confirmed", "error">>
                                           ELSE <<"confirmed">>)
    /\ UNCHANGED <<hist, mahsulotlar, guruhlar, USER_STATE, BONUS_REQUESTS, PRODUCT_CACHE,
                   GROUP_CACHE, shown>>

\* data.startswith("reject_order_")
RejectOrder(u, fail) ==
    /\ Btn("reject_order", u) \in shown[Admin]
    /\ IF ~Has(ORDER_CACHE, u)
       THEN /\ fail = 0
            /\ last' = Ev("RejectOrder", u, "", <<"order_not_found">>)
            /\ UNCHANGED <<ORDER_CACHE, CART, USER_SELECTED_GROUP>>
       ELSE IF fail # 0
       THEN /\ last' = Ev("RejectOrder", u, "", <<"network_error">>)
            /\ UNCHANGED <<ORDER_CACHE, CART, USER_SELECTED_GROUP>>
       ELSE /\ AfterConfirmDels(u)
            /\ last' = Ev("RejectOrder", u, "",
                          IF DelsRaise(u) THEN <<"rejected", "error">> ELSE <<"rejected">>)
    /\ UNCHANGED <<hist, sheets, USER_STATE, BONUS_REQUESTS, caches, shown>>

\* approve_bonus without the statement user_data["bonus"] = 0
ApproveBonusKeepsBalance(u, fail) ==
    /\ Btn("approve_bonus", u) \in shown[Admin]
    /\ IF ~Found(u)
       THEN /\ fail = 0
            /\ last' = Ev("ApproveBonus", u, "", <<"customer_not_found">>)
            /\ UNCHANGED <<haridorlar, USER_CACHE, BONUS_REQUESTS>>
       ELSE LET user_data == Data(u)
                cache2    == Cache1(u)
                res       == UpdateUserData(haridorlar, cache2, u, user_data, FALSE)
            IN  IF ~res.ok
                THEN /\ fail = 0
                     /\ USER_CACHE' = cache2
                     /\ last' = Ev("ApproveBonus", u, "", <<"bonus_not_updated">>)
                     /\ UNCHANGED <<haridorlar, BONUS_REQUESTS>>
                ELSE /\ haridorlar' = res.sheet
                     /\ USER_CACHE' = res.cache
                     /\ IF fail # 0
                        THEN /\ last' = Ev("ApproveBonus", u, "", <<"network_error">>)
                             /\ UNCHANGED BONUS_REQUESTS
                        ELSE /\ BONUS_REQUESTS' = Del(BONUS_REQUESTS, u)
                             /\ last' = Ev("ApproveBonus", u, "",
                                           IF Has(BONUS_REQUESTS, u) THEN <<"bonus_approved">>
                                           ELSE <<"bonus_approved", "error">>)
    /\ UNCHANGED <<hist, mahsulotlar, guruhlar, buyurtmalar, USER_STATE, CART,
                   USER_SELECTED_GROUP, ORDER_CACHE, PRODUCT_CACHE, GROUP_CACHE, shown>>

\* data.startswith("approve_bonus_"): user_data is the cached dict itself,
\* so user_data["bonus"] = 0 changes the cache before the sheet is written
ApproveBonus(u, fail) ==
    /\ Btn("approve_bonus", u) \in shown[Admin]
    /\ IF ~Found(u)
       THEN /\ fail = 0
            /\ last' = Ev("ApproveBonus", u, "", <<"customer_not_found">>)
            /\ UNCHANGED <<haridorlar, USER_CACHE, BONUS_REQUESTS>>
       ELSE LET user_data == [Data(u) EXCEPT !.bonus = 0]
                cache2    == Put(Cache1(u), u, user_data)
                res       == UpdateUserData(haridorlar, cache2, u, user_data, FALSE)
            IN  IF ~res.ok
                THEN /\ fail = 0
                     /\ USER_CACHE' = cache2
                     /\ last' = Ev("ApproveBonus", u, "", <<"bonus_not_updated">>)
                     /\ UNCHANGED <<haridorlar, BONUS_REQUESTS>>
                ELSE /\ haridorlar' = res.sheet
                     /\ USER_CACHE' = res.cache
                     /\ IF fail # 0
                        THEN /\ last' = Ev("ApproveBonus", u, "", <<"network_error">>)
                             /\ UNCHANGED BONUS_REQUESTS
                        ELSE /\ BONUS_REQUESTS' = Del(BONUS_REQUESTS, u)
                             /\ last' = Ev("ApproveBonus", u, "",
                                           IF Has(BONUS_REQUESTS, u) THEN <<"bonus_approved">>
                                           ELSE <<"bonus_approved", "error">>)
    /\ UNCHANGED <<hist, mahsulotlar, guruhlar, buyurtmalar, USER_STATE, CART,
                   USER_SELECTED_GROUP, ORDER_CACHE, PRODUCT_CACHE, GROUP_CACHE, shown>>

\* data.startswith("reject_bonus_")
RejectBonus(u, fail) ==
    /\ Btn("reject_bonus", u) \in shown[Admin]
    /\ IF ~Found(u)
       THEN /\ fail = 0
            /\ last' = Ev("RejectBonus", u, "", <<"customer_not_found">>)
            /\ UNCHANGED <<USER_CACHE, BONUS_REQUESTS>>
       ELSE /\ USER_CACHE' = Cache1(u)
            /\ IF fail # 0
               THEN /\ last' = Ev("RejectBonus", u, "", <<"network_error">>)
                    /\ UNCHANGED BONUS_REQUESTS
               ELSE /\ BONUS_REQUESTS' = Del(BONUS_REQUESTS, u)
                    /\ last' = Ev("RejectBonus", u, "",
                                  IF Has(BONUS_REQUESTS, u) THEN <<"bonus_rejected">>
                                  ELSE <<"bonus_rejected", "error">>)
    /\ UNCHANGED <<hist, sheets, USER_STATE, CART, USER_SELECTED_GROUP, ORDER_CACHE,
                   PRODUCT_CACHE, GROUP_CACHE, shown>>

\* str.split("|") of an edit_request cell.  The cell is kept as the list of
\* the four values the f-string joined; the split cuts every value at each
\* "|" it holds; "" gives [""]
PipePieces(text) == IF text = "Aziz|Bek" THEN <<"Aziz", "Bek">> ELSE <<text>>

RECURSIVE SplitFields(_)
SplitFields(fields) ==
    IF fields = <<>> THEN <<>> ELSE PipePieces(Head(fields)) \o SplitFields(Tail(fields))

SplitPipe(str) == IF str = EmptyStr THEN <<"">> ELSE SplitFields(str)

\* str.strip(): the model's fields carry no surrounding blanks
Strip(str) == str

\* data.startswith("approve_edit_")
ApproveEdit(u) ==
    /\ Btn("approve_edit", u) \in shown[Admin]
    /\ IF ~Found(u)
       THEN /\ last' = Ev("ApproveEdit", u, "", <<"customer_not_found">>)
            /\ UNCHANGED <<haridorlar, USER_CACHE>>
       ELSE IF ~Data(u).has_edit
       THEN \* KeyError: user_data["edit_request"], caught by the inner except
            /\ USER_CACHE' = Cache1(u)
            /\ last' = Ev("ApproveEdit", u, "", <<"edit_error">>)
            /\ UNCHANGED haridorlar
       ELSE LET user_data == Data(u)
                new_data  == SplitPipe(user_data.edit_request)
                updated_data == UserDict(Strip(new_data[1]), Strip(new_data[2]),
                                         Strip(new_data[3]), Strip(new_data[4]),
                                         user_data.bonus, TRUE, EmptyStr, "Yes")
                res == UpdateUserData(haridorlar, Cache1(u), u, updated_data, FALSE)
            IN  IF Len(new_data) # 4
                THEN /\ USER_CACHE' = Cache1(u)
                     /\ last' = Ev("ApproveEdit", u, "", <<"edit_bad_format">>)
                     /\ UNCHANGED haridorlar
                ELSE /\ haridorlar' = res.sheet
                     /\ USER_CACHE' = res.cache
                     /\ last' = Ev("ApproveEdit", u, "",
                                   IF res.ok THEN <<"edit_approved">>
                                   ELSE <<"edit_not_updated">>)
    /\ UNCHANGED <<hist, mahsulotlar, guruhlar, buyurtmalar, dicts, PRODUCT_CACHE,
                   GROUP_CACHE, shown>>

\* data.startswith("reject_edit_"): the cached dict is changed in place
RejectEdit(u) ==
    /\ Btn("reject_edit", u) \in shown[Admin]
    /\ IF ~Found(u)
       THEN /\ last' = Ev("RejectEdit", u, "", <<"customer_not_found">>)
            /\ UNCHANGED <<haridorlar, USER_CACHE>>
       ELSE LET user_data == [Data(u) EXCEPT !.has_edit = TRUE, !.edit_request = EmptyStr,
                                             !.edit_confirmed = "Rejected"]
                cache2    == Put(Cache1(u), u, user_data)
                res       == UpdateUserData(haridorlar, cache2, u, user_data, FALSE)
            IN  /\ haridorlar' = res.sheet
                /\ USER_CACHE' = res.cache
                /\ last' = Ev("RejectEdit", u, "",
                              IF res.ok THEN <<"edit_rejected">> ELSE <<"edit_not_updated">>)
    /\ UNCHANGED <<hist, mahsulotlar, guruhlar, buyurtmalar, dicts, PRODUCT_CACHE,
                   GROUP_CACHE, shown>>

(***************************************************************************)
(* The administrator's product edit: handle_admin (text) and the           *)
(* select_group_edit_ / edit_product_ callbacks.                           *)
(***************************************************************************)
TXT_EDIT_PRODUCTS == "Mahsulotlar ma'lumotlarini o'zgartirish"

ProductNameInputs == {"Cement", ""}
PriceInputs       == {"60000", "0", "abc"}
PercentInputs     == {"20", "150", "-3", "abc"}
StockInputs       == {"100", "-3", "abc"}

\* float(text): the parsed value, or a ValueError
IsFloat(text) == text \in {"60000", "0", "20", "-3", "100", "150"}
FloatOf(text) ==
    FRound(CASE text = "60000" -> 60000
             [] text = "20"    -> 20
             [] text = "100"   -> 100
             [] text = "150"   -> 150
             [] text = "-3"    -> 0 - 3
             [] OTHER          -> 0)

\* update_product: the first row of that name and group is rewritten; the
\* cache entries under the old and the new group name are dropped
UpdateProductIndex(sheet, old_name, group_name) ==
    LET hits == {i \in 1..Len(sheet) :
                    sheet[i].name = old_name /\ sheet[i].group_name = group_name}
    IN  IF hits = {} THEN 0 ELSE CHOOSE i \in hits : \A j \in hits : i <= j

UpdateProduct(sheet, cache, old_name, group_name, data) ==
    LET i == UpdateProductIndex(sheet, old_name, group_name)
    IN  IF i # 0
        THEN [ok    |-> TRUE,
              sheet |-> [sheet EXCEPT ![i] =
                            [group_name |-> data.group_name, name |-> data.name,
                             price |-> data.price, bonus_percent |-> data.bonus_percent,
                             quantity |-> data.quantity]],
              cache |-> Del(Del(cache, group_name), data.group_name)]
        ELSE [ok |-> FALSE, sheet |-> sheet, cache |-> cache]

\* the USER_STATE entry of the edit: keys not yet set hold "" (or 0)
EditProductState(product_name, group_name, product) ==
    [step |-> "edit_product_name", old_product_name |-> product_name,
     old_group_name |-> group_name, current_name |-> product.name,
     current_price |-> product.price, current_bonus_percent |-> product.bonus_percent,
     current_quantity |-> product.quantity,
     new_product_name |-> "", new_price |-> 0, new_bonus_percent |-> 0]

\* text == "Mahsulotlar ma'lumotlarini o'zgartirish"
AdmMsgEditProducts ==
    /\ GROUP_CACHE' = GetGroupsCache(guruhlar, GROUP_CACHE)
    /\ LET groups == GetGroups(guruhlar, GROUP_CACHE)
       IN  IF groups = {}
           THEN /\ shown' = shown
                /\ last' = Ev("AdmMsgEditProducts", Admin, TXT_EDIT_PRODUCTS, <<"no_groups">>)
           ELSE /\ shown' = Show(Admin, {Btn("select_group_edit", g) : g \in groups})
                /\ last' = Ev("AdmMsgEditProducts", Admin, TXT_EDIT_PRODUCTS,
                              <<"choose_group">>)
    /\ UNCHANGED <<hist, sheets, dicts, USER_CACHE, PRODUCT_CACHE>>

\* data.startswith("select_group_edit_")
AdmSelectGroupEdit(group_name) ==
    /\ Btn("select_group_edit", group_name) \in shown[Admin]
    /\ USER_SELECTED_GROUP' = Put(USER_SELECTED_GROUP, Admin, group_name)
    /\ PRODUCT_CACHE' = GetProductsCache(mahsulotlar, PRODUCT_CACHE, group_name)
    /\ LET products == GetProducts(mahsulotlar, PRODUCT_CACHE, group_name)
       IN  IF products = <<>>
           THEN /\ shown' = shown
                /\ last' = Ev("AdmSelectGroupEdit", Admin, group_name, <<"no_products">>)
           ELSE /\ shown' = Show(Admin,
                                 {Btn("edit_product", products[i].name) : i \in 1..Len(products)}
                                    \cup {Btn("delete_product", products[i].name) :
                                             i \in 1..Len(products)})
                /\ last' = Ev("AdmSelectGroupEdit", Admin, group_name, <<"choose_product">>)
    /\ UNCHANGED <<hist, sheets, USER_STATE, CART, BONUS_REQUESTS, ORDER_CACHE,
                   USER_CACHE, GROUP_CACHE>>

\* data.startswith("edit_product_")
AdmEditProduct(product_name) ==
    /\ Btn("edit_product", product_name) \in shown[Admin]
    /\ LET group_name == IF Has(USER_SELECTED_GROUP, Admin)
                         THEN USER_SELECTED_GROUP[Admin] ELSE ""
           products   == GetProducts(mahsulotlar, PRODUCT_CACHE, group_name)
           i          == ProductIndex(products, product_name)
       IN  /\ PRODUCT_CACHE' = GetProductsCache(mahsulotlar, PRODUCT_CACHE, group_name)
           /\ IF i = 0
              THEN /\ USER_STATE' = USER_STATE
                   /\ last' = Ev("AdmEditProduct", Admin, product_name, <<"product_not_found">>)
              ELSE /\ USER_STATE' = Put(USER_STATE, Admin,
                                        EditProductState(product_name, group_name, products[i]))
                   /\ last' = Ev("AdmEditProduct", Admin, product_name, <<"ask_product_name">>)
    /\ UNCHANGED <<hist, sheets, CART, BONUS_REQUESTS, USER_SELECTED_GROUP, ORDER_CACHE,
                   USER_CACHE, GROUP_CACHE, shown>>

\* state["step"] == "edit_product_name"
AdmEditProductName(text) ==
    /\ InStep(Admin, "edit_product_name")
    /\ IF text = ""
       THEN /\ USER_STATE' = USER_STATE
            /\ last' = Ev("AdmEditProductName", Admin, text, <<"product_name_empty">>)
       ELSE /\ USER_STATE' = [USER_STATE EXCEPT ![Admin].new_product_name = text,
                                                ![Admin].step = "edit_product_price"]
            /\ last' = Ev("AdmEditProductName", Admin, text, <<"ask_product_price">>)
    /\ UNCHANGED <<hist, sheets, CART, BONUS_REQUESTS, USER_SELECTED_GROUP, ORDER_CACHE,
                   caches, shown>>

\* state["step"] == "edit_product_price"
AdmEditProductPrice(text) ==
    /\ InStep(Admin, "edit_product_price")
    /\ IF ~IsFloat(text)
       THEN /\ USER_STATE' = USER_STATE
            /\ last' = Ev("AdmEditProductPrice", Admin, text, <<"price_not_number">>)
       ELSE IF FloatOf(text) <= 0
       THEN /\ USER_STATE' = USER_STATE
            /\ last' = Ev("AdmEditProductPrice", Admin, text, <<"price_not_positive">>)
       ELSE /\ USER_STATE' = [USER_STATE EXCEPT ![Admin].new_price = FloatOf(text),
                                                ![Admin].step = "edit_product_bonus"]
            /\ last' = Ev("AdmEditProductPrice", Admin, text, <<"ask_product_bonus">>)
    /\ UNCHANGED <<hist, sheets, CART, BONUS_REQUESTS, USER_SELECTED_GROUP, ORDER_CACHE,
                   caches, shown>>

\* state["step"] == "edit_product_bonus"
AdmEditProductBonus(text) ==
    /\ InStep(Admin, "edit_product_bonus")
    /\ IF ~IsFloat(text)
       THEN /\ USER_STATE' = USER_STATE
            /\ last' = Ev("AdmEditProductBonus", Admin, text, <<"percent_not_number">>)
       ELSE IF FloatOf(text) < 0
       THEN /\ USER_STATE' = USER_STATE
            /\ last' = Ev("AdmEditProductBonus", Admin, text, <<"percent_negative">>)
       ELSE /\ USER_STATE' = [USER_STATE EXCEPT ![Admin].new_bonus_percent = FloatOf(text),
                                                ![Admin].step = "edit_product_quantity"]
            /\ last' = Ev("AdmEditProductBonus", Admin, text, <<"ask_product_quantity">>)
    /\ UNCHANGED <<hist, sheets, CART, BONUS_REQUESTS, USER_SELECTED_GROUP, ORDER_CACHE,
                   caches, shown>>

\* state["step"] == "edit_product_quantity": update_product, then the two
\* "del" statements (a missing group selection raises KeyError after the
\* session entry is gone)
AdmEditProductQuantity(text) ==
    /\ InStep(Admin, "edit_product_quantity")
    /\ IF ~IsFloat(text)
       THEN /\ last' = Ev("AdmEditProductQuantity", Admin, text, <<"quantity_not_number">>)
            /\ UNCHANGED <<mahsulotlar, PRODUCT_CACHE, USER_STATE, USER_SELECTED_GROUP>>
       ELSE IF FloatOf(text) < 0
       THEN /\ last' = Ev("AdmEditProductQuantity", Admin, text, <<"quantity_negative">>)
            /\ UNCHANGED <<mahsulotlar, PRODUCT_CACHE, USER_STATE, USER_SELECTED_GROUP>>
       ELSE LET state == USER_STATE[Admin]
                data  == [group_name    |-> IF Has(USER_SELECTED_GROUP, Admin)
                                            THEN USER_SELECTED_GROUP[Admin] ELSE "",
                          name          |-> state.new_product_name,
                          price         |-> state.new_price,
                          bonus_percent |-> state.new_bonus_percent,
                          quantity      |-> FloatOf(text)]
                res   == UpdateProduct(mahsulotlar, PRODUCT_CACHE, state.old_product_name,
                                       state.old_group_name, data)
            IN  /\ mahsulotlar' = res.sheet
                /\ PRODUCT_CACHE' = res.cache
                /\ USER_STATE' = Del(USER_STATE, Admin)
                /\ USER_SELECTED_GROUP' = Del(USER_SELECTED_GROUP, Admin)
                /\ last' = Ev("AdmEditProductQuantity", Admin, text,
                              <<IF res.ok THEN "product_updated" ELSE "product_not_updated">>
                                 \o (IF Has(USER_SELECTED_GROUP, Admin) THEN <<>>
                                     ELSE <<"error">>))
    /\ UNCHANGED <<hist, haridorlar, guruhlar, buyurtmalar, CART, BONUS_REQUESTS,
                   ORDER_CACHE, USER_CACHE, GROUP_CACHE, shown>>

(***************************************************************************)
(* Initial state: the sheets as the process finds them (one registered     *)
(* customer, one group with one product), every dictionary empty.         *)
(***************************************************************************)
InitHaridorlar ==
    <<UserRow("u1", "Aziz", "+998901234567", "Lat:41.3 Lon:69.2", "Usta", 0, EmptyStr, "")>>

InitMahsulotlar ==
    <<[group_name |-> "G1", name |-> "Cement", price |-> 50000, bonus_percent |-> 10,
       quantity |-> 100]>>

Init ==
    /\ haridorlar = InitHaridorlar
    /\ mahsulotlar = InitMahsulotlar
    /\ guruhlar = <<"G1">>
    /\ buyurtmalar = <<>>
    /\ USER_STATE = EmptyDict
    /\ CART = EmptyDict
    /\ BONUS_REQUESTS = EmptyDict
    /\ USER_SELECTED_GROUP = EmptyDict
    /\ ORDER_CACHE = EmptyDict
    /\ USER_CACHE = EmptyDict
    /\ PRODUCT_CACHE = EmptyDict
    /\ GROUP_CACHE = [set |-> FALSE, val |-> {}]
    /\ shown = [r \in Customers \cup {Admin} |-> {}]
    /\ hist = [edit_orig |-> [u \in Customers |-> <<>>],
               staged    |-> [u \in Customers |-> 0]]
    /\ last = Ev("Init", "", "", <<>>)

GroupNames   == {"G1"}
ProductNames == {"Cement"}

\* handle_message while registering
NextRegister(C) ==
    \/ \E u \in C, text \in NameInputs \cup PhoneInputs \cup RoleInputs \cup {TXT_EDIT, TXT_ORDER} :
          MsgUnregistered(u, text)
    \/ \E u \in C : MsgSave(u)
    \/ \E u \in C, text \in NameInputs : StepName(u, text)
    \/ \E u \in C, text \in PhoneInputs : StepPhone(u, text)
    \/ \E u \in C, loc \in Locations : LocRegister(u, loc)
    \/ \E u \in C, text \in RoleInputs : StepRole(u, text)

\* the customer's edit chain and the administrator's decision on it
NextEdit(C) ==
    \/ \E u \in C : MsgEdit(u)
    \/ \E u \in C, text \in NameInputs : StepEditName(u, text)
    \/ \E u \in C, text \in PhoneInputs : StepEditPhone(u, text)
    \/ \E u \in C, loc \in Locations : LocEdit(u, loc)
    \/ \E u \in C, text \in RoleInputs, fail \in FailPoints : StepEditRole(u, text, fail)
    \/ \E u \in C : ApproveEdit(u)
    \/ \E u \in C : RejectEdit(u)

\* the customer's order chain and the administrator's decision on it
NextOrder(C) ==
    \/ \E u \in C : MsgOrder(u)
    \/ \E u \in C, g \in GroupNames : CbGroup(u, g)
    \/ \E u \in C, p \in ProductNames : CbProduct(u, p)
    \/ \E u \in C, text \in QtyInputs, sent \in BOOLEAN : StepQuantity(u, text, sent)
    \/ \E u \in C : CbConfirmCart(u)
    \/ \E u \in C, loc \in Locations, fail \in FailPoints : LocOrder(u, loc, fail)
    \/ \E u \in C, fail \in FailPoints : ConfirmOrder(u, fail)
    \/ \E u \in C, fail \in FailPoints : RejectOrder(u, fail)

\* the administrator's product edit chain
NextProductEdit ==
    \/ AdmMsgEditProducts
    \/ \E g \in GroupNames : AdmSelectGroupEdit(g)
    \/ \E p \in ProductNames : AdmEditProduct(p)
    \/ \E text \in ProductNameInputs : AdmEditProductName(text)
    \/ \E text \in PriceInputs : AdmEditProductPrice(text)
    \/ \E text \in PercentInputs : AdmEditProductBonus(text)
    \/ \E text \in StockInputs : AdmEditProductQuantity(text)

\* bonus withdrawal and the administrator's decision on it
NextBonus(C) ==
    \/ \E u \in C, sent \in BOOLEAN : MsgWithdraw(u, sent)
    \/ \E u \in C, fail \in FailPoints : ApproveBonus(u, fail)
    \/ \E u \in C, fail \in FailPoints : RejectBonus(u, fail)

Next ==
    \/ NextRegister(Customers)
    \/ NextEdit(Customers)
    \/ NextOrder(Customers)
    \/ NextBonus(Customers)

Spec == Init /\ [][Next]_vars

Registered == {"u1"}

SpecRegister == Init /\ [][NextRegister(Customers)]_vars
SpecEdit     == Init /\ [][NextEdit(Registered)]_vars
SpecOrder    == Init /\ [][NextOrder(Registered)]_vars

(***************************************************************************)
(* The edit chain next to a staged order.  InitStaged is the state after   *)
(* u1 ordered one product and sent the delivery location (SpecOrder        *)
(* reaches it: StagedUnreached).                                           *)
(***************************************************************************)
StagedItem ==
    [name |-> "Cement", quantity |-> 2, price |-> InitMahsulotlar[1].price,
     bonus_percent |-> InitMahsulotlar[1].bonus_percent]

StagedState ==
    /\ haridorlar = InitHaridorlar
    /\ mahsulotlar = InitMahsulotlar
    /\ guruhlar = <<"G1">>
    /\ buyurtmalar = <<>>
    /\ USER_STATE = EmptyDict
    /\ CART = Put(EmptyDict, "u1", <<StagedItem>>)
    /\ BONUS_REQUESTS = EmptyDict
    /\ USER_SELECTED_GROUP = Put(EmptyDict, "u1", "G1")
    /\ ORDER_CACHE = Put(EmptyDict, "u1",
          TempOrder("u1", RowToUser(InitHaridorlar[1]), "Lat:40.1 Lon:70.5", "G1",
                    <<StagedItem>>))
    /\ USER_CACHE = Put(EmptyDict, "u1", RowToUser(InitHaridorlar[1]))
    /\ PRODUCT_CACHE = Put(EmptyDict, "G1", InitMahsulotlar)
    /\ GROUP_CACHE = [set |-> TRUE, val |-> {"G1"}]
    /\ shown = [r \in Customers \cup {Admin} |->
                  IF r = "u1"
                  THEN {Btn("group", "G1"), Btn("product", "Cement"), Btn("confirm_cart", "")}
                  ELSE IF r = Admin
                  THEN {Btn("confirm_order", "u1"), Btn("reject_order", "u1")}
                  ELSE {}]
    /\ hist = [edit_orig |-> [u \in Customers |-> <<>>],
               staged    |-> [u \in Customers |-> IF u = "u1" THEN 1 ELSE 0]]

InitStaged ==
    /\ StagedState
    /\ last = Ev("LocOrder", "u1", "Lat:40.1 Lon:70.5", <<"order_sent">>)

NextEditConfirm ==
    \/ NextEdit(Registered)
    \/ \E u \in Registered : ConfirmOrder(u, 0)

SpecEditConfirm == InitStaged /\ [][NextEditConfirm]_vars

(***************************************************************************)
(* Staging as a function of the cart: every cart of up to MaxCart + 1      *)
(* items over two products, one of them priced at the first float whose    *)
(* successor is not representable, for a customer of either role.          *)
(***************************************************************************)
BigPrice == Pow2(MantBits)

TotalsProducts ==
    <<[group_name |-> "G1", name |-> "Beam", price |-> BigPrice, bonus_percent |-> 100,
       quantity |-> 10],
      [group_name |-> "G1", name |-> "Nail", price |-> 1, bonus_percent |-> 100,
       quantity |-> 10]>>

TotalsItems ==
    {[name |-> TotalsProducts[i].name, quantity |-> q, price |-> TotalsProducts[i].price,
      bonus_percent |-> TotalsProducts[i].bonus_percent] :
        i \in 1..Len(TotalsProducts), q \in {1, 2}}

TotalsCarts ==
    UNION {[1..n -> TotalsItems] : n \in 1..(MaxCart + 1)}

InitTotals ==
    /\ \E role \in {"Usta", "Uy egasi"} :
          haridorlar = <<[InitHaridorlar[1] EXCEPT !.role = role]>>
    /\ mahsulotlar = TotalsProducts
    /\ guruhlar = <<"G1">>
    /\ buyurtmalar = <<>>
    /\ USER_STATE = Put(EmptyDict, "u1", StepState("order_location"))
    /\ \E cart \in TotalsCarts : CART = Put(EmptyDict, "u1", cart)
    /\ BONUS_REQUESTS = EmptyDict
    /\ USER_SELECTED_GROUP = Put(EmptyDict, "u1", "G1")
    /\ ORDER_CACHE = EmptyDict
    /\ USER_CACHE = Put(EmptyDict, "u1", RowToUser(haridorlar[1]))
    /\ PRODUCT_CACHE = Put(EmptyDict, "G1", TotalsProducts)
    /\ GROUP_CACHE = [set |-> TRUE, val |-> {"G1"}]
    /\ shown = [r \in Customers \cup {Admin} |->
                  IF r = "u1"
                  THEN {Btn("group", "G1"), Btn("product", "Beam"), Btn("product", "Nail"),
                        Btn("confirm_cart", "")}
                  ELSE {}]
    /\ hist = [edit_orig |-> [u \in Customers |-> <<>>],
               staged    |-> [u \in Customers |-> 0]]
    /\ last = Ev("CbConfirmCart", "u1", "", <<"ask_order_location">>)

NextTotals == \E loc \in Locations, fail \in FailPoints : LocOrder("u1", loc, fail)

SpecTotals == InitTotals /\ [][NextTotals]_vars

(***************************************************************************)
(* Properties.                                                             *)
(***************************************************************************)
RowsOf(sheet, u) == {i \in 1..Len(sheet) : sheet[i].id = u}

Profile(sheet, u) ==
    LET row == sheet[RowIndex(sheet, u)]
    IN  [name |-> row.name, phone |-> row.phone, address |-> row.address,
         role |-> row.role]

StoredBonus(sheet, u) == sheet[RowIndex(sheet, u)].bonus

StepIs(states, u, step) == Has(states, u) /\ states[u].step = step

EditChainEvents == {"MsgEdit", "StepEditName", "StepEditPhone", "LocEdit", "StepEditRole"}
TextEvents == {"MsgUnregistered", "MsgSave", "MsgEdit", "MsgOrder", "MsgWithdraw",
               "StepName", "StepPhone", "StepRole", "StepQuantity",
               "StepEditName", "StepEditPhone", "StepEditRole"}

\* C1: the customer edit chain only stages a request: the stored name,
\* phone, address and role of a customer change in no step other than the
\* administrator's approve_edit press.
C1_EditChainOnlyStages ==
    [][\A u \in Customers :
          (RowIndex(haridorlar, u) # 0 /\ last'.ev # "ApproveEdit")
             => Profile(haridorlar', u) = Profile(haridorlar, u)]_vars

\* C2: a reject_edit press for a customer with a pending request clears the
\* request and leaves name, phone, address, role and bonus as they were
\* before the customer started the edit chain.
C2_RejectRestoresOriginal ==
    [][\A u \in Customers :
          (/\ last'.ev = "RejectEdit" /\ last'.u = u
           /\ RowIndex(haridorlar, u) # 0
           /\ haridorlar[RowIndex(haridorlar, u)].edit_request # EmptyStr)
             => /\ haridorlar'[RowIndex(haridorlar', u)].edit_request = EmptyStr
                /\ hist.edit_orig[u] # <<>>
                /\ Profile(haridorlar', u)
                      = [name |-> hist.edit_orig[u][1].name,
                         phone |-> hist.edit_orig[u][1].phone,
                         address |-> hist.edit_orig[u][1].address,
                         role |-> hist.edit_orig[u][1].role]
                /\ StoredBonus(haridorlar', u) = hist.edit_orig[u][1].bonus]_vars

\* C3: one staged order credits its bonus at most once: over any sequence
\* of events (duplicate confirm presses, notification failures during
\* confirm) a customer has no more credited order rows than staged orders.
Credits(u) ==
    {i \in 1..Len(buyurtmalar) : buyurtmalar[i].user_id = u /\ buyurtmalar[i].bonus_sum > 0}

C3_CreditAtMostOnce ==
    \A u \in Customers :
        hist.staged[u] < MaxOrders => Cardinality(Credits(u)) <= hist.staged[u]

\* C4: a confirm raises the customer's stored bonus by exactly the bonus_sum
\* held in the staged order.
C4_ConfirmCreditsStagedBonus ==
    [][\A u \in Customers :
          (/\ last'.ev = "ConfirmOrder" /\ last'.u = u
           /\ last'.out = <<"confirmed">>
           /\ Has(ORDER_CACHE, u) /\ RowIndex(haridorlar, u) # 0)
             => StoredBonus(haridorlar', u)
                   = StoredBonus(haridorlar, u) + ORDER_CACHE[u].bonus_sum]_vars

\* C5: for an unregistered user the texts of the registration chain advance
\* it: "save data" opens step name, a non-empty name leads to step phone, a
\* matching phone to step location, and a valid role persists the record
\* with bonus 0 and ends the session.
C5_RegistrationChain ==
    [][\A u \in Customers :
          (RowIndex(haridorlar, u) = 0 /\ last'.u = u /\ last'.ev \in TextEvents)
             => /\ last'.inp = TXT_SAVE => StepIs(USER_STATE', u, "name")
                /\ (StepIs(USER_STATE, u, "name") /\ last'.inp \in NameInputs \ {""})
                      => StepIs(USER_STATE', u, "phone")
                /\ (StepIs(USER_STATE, u, "phone") /\ PhoneMatches(last'.inp))
                      => StepIs(USER_STATE', u, "location")
                /\ (StepIs(USER_STATE, u, "role") /\ last'.inp \in ValidRoles)
                      => /\ RowIndex(haridorlar', u) # 0
                         /\ StoredBonus(haridorlar', u) = 0
                         /\ ~Has(USER_STATE', u)]_vars

\* C6: after a successful confirm the order row persisted for it has
\* confirmation status Confirmed ("Yes").
C6_ConfirmedRowIsConfirmed ==
    (last.ev = "ConfirmOrder" /\ last.out = <<"confirmed">>)
        => buyurtmalar[Len(buyurtmalar)].confirmed = "Yes"

\* C7: the Customers sheet holds at most one row per user identifier.
C7_OneRowPerIdentifier ==
    \A u \in Customers : Cardinality(RowsOf(haridorlar, u)) <= 1

\* C8: no step of the edit chain and no approve_edit or reject_edit press
\* changes the customer's stored bonus balance.
C8_EditKeepsBonus ==
    [][\A u \in Customers :
          (/\ last'.u = u
           /\ last'.ev \in EditChainEvents \cup {"ApproveEdit", "RejectEdit"}
           /\ RowIndex(haridorlar, u) # 0)
             => StoredBonus(haridorlar', u) = StoredBonus(haridorlar, u)]_vars

RECURSIVE ExactSum(_)
\* the sum of price * quantity over the line items, in exact arithmetic
ExactSum(cart) ==
    IF cart = <<>> THEN 0
    ELSE Head(cart).price * Head(cart).quantity + ExactSum(Tail(cart))

RECURSIVE ExactBonus(_)
\* the sum of price * quantity * bonus_percent / 100, in exact arithmetic
ExactBonus(cart) ==
    IF cart = <<>> THEN 0
    ELSE (Head(cart).price * Head(cart).quantity * Head(cart).bonus_percent) \div 100
            + ExactBonus(Tail(cart))

Reordered(cart, perm) == [i \in 1..Len(cart) |-> cart[perm[i]]]

\* C9: a staged order's total_sum is the sum of price * quantity over the
\* cart, its bonus_sum the sum of price * quantity * bonus_percent / 100
\* for role Usta and 0 otherwise, whatever the order of the line items.
C9_TotalsAreOrderFreeSums ==
    \A u \in DOMAIN ORDER_CACHE :
        LET order == ORDER_CACHE[u]
            role  == haridorlar[RowIndex(haridorlar, u)].role
        IN  (last.ev = "LocOrder" /\ last.u = u) =>
              /\ order.total_sum = ExactSum(order.cart)
              /\ order.bonus_sum = IF role = "Usta" THEN ExactBonus(order.cart) ELSE 0
              /\ \A perm \in Permutations(1..Len(order.cart)) :
                    /\ TotalSum(Reordered(order.cart, perm)) = order.total_sum
                    /\ TotalBonus(Reordered(order.cart, perm), role) = order.bonus_sum

StagedUnreached == ~StagedState

RemoveAt(sheet, i) == [j \in 1..(Len(sheet) - 1) |-> IF j < i THEN sheet[j] ELSE sheet[j + 1]]

ExternalDeleteCustomer(u) ==
    /\ RowIndex(haridorlar, u) # 0
    /\ haridorlar' = RemoveAt(haridorlar, RowIndex(haridorlar, u))
    /\ last' = Ev("ExternalDeleteCustomer", u, "", <<>>)
    /\ UNCHANGED <<mahsulotlar, guruhlar, buyurtmalar, dicts, caches, shown, hist>>

\* the administrator's decision on a staged order whose customer may still add
\* to the cart and whose row may be removed
NextOrderDeleted ==
    \/ \E u \in Registered : ExternalDeleteCustomer(u)
    \/ \E u \in Registered, p \in ProductNames : CbProduct(u, p)
    \/ \E u \in Registered, text \in QtyInputs, sent \in BOOLEAN : StepQuantity(u, text, sent)
    \/ \E u \in Registered, fail \in FailPoints : ConfirmOrder(u, fail)
    \/ \E u \in Registered, fail \in FailPoints : RejectOrder(u, fail)

SpecOrderDeleted == InitStaged /\ [][NextOrderDeleted]_vars

\* C12: a confirm_order press for a staged order whose customer has no row
\* in the Customers sheet appends no order row and answers the administrator
\* with a failure message.
C12_ConfirmWithoutCustomerAborts ==
    [][\A u \in Customers :
          (/\ last'.ev = "ConfirmOrder" /\ last'.u = u
           /\ Has(ORDER_CACHE, u)
           /\ RowIndex(haridorlar, u) = 0)
             => /\ buyurtmalar' = buyurtmalar
                /\ Head(last'.out) \in {"order_not_saved", "customer_not_found"}]_vars

\* C13: a text that does not match +998 and nine digits, sent by a user in
\* step phone or step edit_phone, leaves the user's session entry as it was
\* (same step, same fields) and is answered with the phone re-prompt.
C13_BadPhoneStaysOnStep ==
    [][\A u \in Customers :
          (/\ last'.u = u /\ last'.ev \in TextEvents
           /\ (StepIs(USER_STATE, u, "phone") \/ StepIs(USER_STATE, u, "edit_phone"))
           /\ ~PhoneMatches(last'.inp))
             => /\ Has(USER_STATE', u)
                /\ USER_STATE'[u] = USER_STATE[u]
                /\ last'.out = <<"phone_invalid">>]_vars

SameCart(u) ==
    /\ Has(CART', u) <=> Has(CART, u)
    /\ Has(CART, u) => CART'[u] = CART[u]

\* C14: a text that is not a positive integer, sent by a customer in step
\* quantity, leaves the customer's cart as it was and the customer in step
\* quantity.
C14_BadQuantityKeepsCart ==
    [][\A u \in Customers :
          (/\ last'.u = u /\ last'.ev \in TextEvents
           /\ StepIs(USER_STATE, u, "quantity")
           /\ ~(IsInt(last'.inp) /\ IntOf(last'.inp) > 0))
             => /\ SameCart(u)
                /\ StepIs(USER_STATE', u, "quantity")]_vars

\* C15: a confirm_cart press by a customer whose cart is empty or absent is
\* answered with the empty-cart message and changes no session, cart, group
\* selection, staged order or sheet.
C15_EmptyCartConfirmRejected ==
    [][\A u \in Customers :
          (/\ last'.ev = "CbConfirmCart" /\ last'.u = u
           /\ (~Has(CART, u) \/ CART[u] = <<>>))
             => /\ last'.out = <<"cart_empty">>
                /\ dicts' = dicts
                /\ sheets' = sheets]_vars

\* the press of a customer who emptied the cart while an order is staged
C15_Witness ==
    /\ last.ev = "CbConfirmCart" /\ last.out = <<"cart_empty">>
    /\ Has(ORDER_CACHE, last.u)
    /\ Has(CART, last.u) /\ CART[last.u] = <<>>

\* the press of a customer whose cart was deleted by the administrator's decision
C15_WitnessAbsent ==
    /\ last.ev = "CbConfirmCart" /\ last.out = <<"cart_empty">>
    /\ ~Has(CART, last.u)

(***************************************************************************)
(* Bonus withdrawal next to a staged order and the edit chain: the confirm *)
(* credits the bonus that a withdrawal needs, the edit chain changes the   *)
(* role.                                                                   *)
(***************************************************************************)
NextBonusScenario ==
    \/ NextBonus(Registered)
    \/ NextEdit(Registered)
    \/ \E u \in Registered : ConfirmOrder(u, 0)

SpecBonus == InitStaged /\ [][NextBonusScenario]_vars

\* C16: a withdrawal request is set or replaced only by the customer's own
\* withdrawal text, only while the stored role is Usta and the stored bonus
\* is above 0, with the stored bonus as its amount; and no withdrawal text
\* changes a sheet.
C16_WithdrawalGate ==
    [][\A u \in Customers :
          /\ (Has(BONUS_REQUESTS', u)
                /\ (~Has(BONUS_REQUESTS, u) \/ BONUS_REQUESTS'[u] # BONUS_REQUESTS[u]))
                => /\ last'.ev = "MsgWithdraw" /\ last'.u = u
                   /\ RowIndex(haridorlar, u) # 0
                   /\ haridorlar[RowIndex(haridorlar, u)].role = "Usta"
                   /\ StoredBonus(haridorlar, u) > 0
                   /\ BONUS_REQUESTS'[u] = StoredBonus(haridorlar, u)
          /\ (last'.ev = "MsgWithdraw" /\ last'.u = u)
                => /\ sheets' = sheets
                   /\ Head(last'.out) = "no_bonus"
                         <=> StoredBonus(haridorlar, u) <= 0
                   /\ Head(last'.out) = "no_bonus" => BONUS_REQUESTS' = BONUS_REQUESTS]_vars

\* a request staged for a credited bonus, the record still holding it
C16_Witness ==
    /\ last.ev = "MsgWithdraw" /\ last.out = <<"withdraw_sent">>
    /\ Has(BONUS_REQUESTS, last.u)
    /\ BONUS_REQUESTS[last.u] > 0
    /\ StoredBonus(haridorlar, last.u) = BONUS_REQUESTS[last.u]

C17_WitnessReject ==
    /\ last.ev = "RejectBonus" /\ last.out = <<"bonus_rejected">>
    /\ ~Has(BONUS_REQUESTS, last.u)
    /\ StoredBonus(haridorlar, last.u) > 0

(***************************************************************************)
(* update_bonus on its own: two customers, each with a row, and a bounded  *)
(* number of credits of drawn amounts.  hist keeps each customer's initial *)
(* balance and the exact sum of the amounts credited.                      *)
(***************************************************************************)
MaxCredits == 3

CreditAmounts == {1, 3, 10000}
InitialBalances == {0, 10000, BigPrice}

InitCredits ==
    /\ \E b1 \in InitialBalances, b2 \in InitialBalances :
          /\ haridorlar = <<UserRow("u1", "Aziz", "+998901234567", "Lat:41.3 Lon:69.2",
                                    "Usta", b1, EmptyStr, ""),
                            UserRow("u2", "Bek", "+998911111111", "Lat:40.1 Lon:70.5",
                                    "Usta", b2, EmptyStr, "")>>
          /\ hist = [edit_orig |-> [u \in Customers |-> <<>>],
                     staged    |-> [u \in Customers |-> 0],
                     initial   |-> [u \in Customers |-> IF u = "u1" THEN b1 ELSE b2],
                     credited  |-> [u \in Customers |-> 0],
                     calls     |-> 0]
    /\ \E cached \in SUBSET Customers :
          USER_CACHE = [u \in cached |-> RowToUser(haridorlar[RowIndex(haridorlar, u)])]
    /\ mahsulotlar = InitMahsulotlar
    /\ guruhlar = <<"G1">>
    /\ buyurtmalar = <<>>
    /\ USER_STATE = EmptyDict
    /\ CART = EmptyDict
    /\ BONUS_REQUESTS = EmptyDict
    /\ USER_SELECTED_GROUP = EmptyDict
    /\ ORDER_CACHE = EmptyDict
    /\ PRODUCT_CACHE = EmptyDict
    /\ GROUP_CACHE = [set |-> FALSE, val |-> {}]
    /\ shown = [r \in Customers \cup {Admin} |-> {}]
    /\ last = Ev("Init", "", "", <<>>)

\* one call update_bonus(user_id, bonus_amount)
CallUpdateBonus(u, bonus_amount) ==
    /\ hist.calls < MaxCredits
    /\ LET res == UpdateBonus(haridorlar, USER_CACHE, u, bonus_amount)
       IN  /\ haridorlar' = res.sheet
           /\ USER_CACHE' = res.cache
           /\ last' = Ev("CallUpdateBonus", u, "", <<IF res.ok THEN "True" ELSE "False">>)
    /\ hist' = [hist EXCEPT !.credited[u] = @ + bonus_amount, !.calls = @ + 1]
    /\ UNCHANGED <<mahsulotlar, guruhlar, buyurtmalar, dicts, PRODUCT_CACHE, GROUP_CACHE, shown>>

NextCredits == \E u \in Customers, b \in CreditAmounts : CallUpdateBonus(u, b)

SpecCredits == InitCredits /\ [][NextCredits]_vars

\* C18: after any sequence of update_bonus calls every customer's stored
\* balance is the initial balance plus the sum of the amounts credited to
\* that customer, whatever the order of the calls.
C18_UpdateBonusAdditive ==
    \A u \in Customers :
        (last.ev \in {"Init", "CallUpdateBonus"} /\ RowIndex(haridorlar, u) # 0)
           => StoredBonus(haridorlar, u) = hist.initial[u] + hist.credited[u]

(***************************************************************************)
(* One order next to the administrator's product edit, every message       *)
(* delivered.  GroupChosenState is the state after u1 sent the order text  *)
(* and pressed the group button (SpecOrder reaches it: GroupChosenUnreached). *)
(***************************************************************************)
GroupChosenState ==
    /\ haridorlar = InitHaridorlar
    /\ mahsulotlar = InitMahsulotlar
    /\ guruhlar = <<"G1">>
    /\ buyurtmalar = <<>>
    /\ USER_STATE = EmptyDict
    /\ CART = Put(EmptyDict, "u1", <<>>)
    /\ BONUS_REQUESTS = EmptyDict
    /\ USER_SELECTED_GROUP = Put(EmptyDict, "u1", "G1")
    /\ ORDER_CACHE = EmptyDict
    /\ USER_CACHE = Put(EmptyDict, "u1", RowToUser(InitHaridorlar[1]))
    /\ PRODUCT_CACHE = Put(EmptyDict, "G1", InitMahsulotlar)
    /\ GROUP_CACHE = [set |-> TRUE, val |-> {"G1"}]
    /\ shown = [r \in Customers \cup {Admin} |->
                  IF r = "u1"
                  THEN {Btn("group", "G1"), Btn("product", "Cement"), Btn("confirm_cart", "")}
                  ELSE {}]
    /\ hist = [edit_orig |-> [u \in Customers |-> <<>>],
               staged    |-> [u \in Customers |-> 0]]

InitGroupChosen ==
    /\ GroupChosenState
    /\ last = Ev("CbGroup", "u1", "G1", <<"choose_product">>)

NextPriceEdit ==
    \/ NextProductEdit
    \/ \E u \in Registered, p \in ProductNames : CbProduct(u, p)
    \/ \E u \in Registered, text \in QtyInputs : StepQuantity(u, text, TRUE)
    \/ \E u \in Registered : CbConfirmCart(u)
    \/ \E u \in Registered, loc \in Locations : LocOrder(u, loc, 0)
    \/ \E u \in Registered : ConfirmOrder(u, 0)

SpecPriceEdit == InitGroupChosen /\ [][NextPriceEdit]_vars

AdminEditEvents ==
    {"AdmMsgEditProducts", "AdmSelectGroupEdit", "AdmEditProduct", "AdmEditProductName",
     "AdmEditProductPrice", "AdmEditProductBonus", "AdmEditProductQuantity"}

\* C19: an item enters the cart with the price and bonus percent the product
\* sheet holds at that moment; no step of the administrator's product edit
\* changes a cart, a staged order or an order row; and a confirm persists
\* the totals computed from the values held in the staged order's items.
C19_OrderUsesAddTimePrices ==
    [][\A u \in Customers :
          /\ (last'.ev = "StepQuantity" /\ last'.u = u /\ last'.out = <<"added">>)
                => LET item == CART'[u][Len(CART'[u])]
                       i    == UpdateProductIndex(mahsulotlar, item.name,
                                                  USER_SELECTED_GROUP[u])
                   IN  /\ CART'[u] = Append(CART[u], item)
                       /\ i # 0
                       /\ item.price = mahsulotlar[i].price
                       /\ item.bonus_percent = mahsulotlar[i].bonus_percent
          /\ last'.ev \in AdminEditEvents
                => /\ CART' = CART
                   /\ ORDER_CACHE' = ORDER_CACHE
                   /\ buyurtmalar' = buyurtmalar
                   /\ haridorlar' = haridorlar
          /\ (last'.ev = "ConfirmOrder" /\ last'.u = u /\ Head(last'.out) = "confirmed")
                => LET row  == buyurtmalar'[Len(buyurtmalar')]
                       cart == ORDER_CACHE[u].cart
                   IN  /\ Len(buyurtmalar') = Len(buyurtmalar) + 1
                       /\ row.total_sum = TotalSum(cart)
                       /\ row.bonus_sum
                             = TotalBonus(cart, haridorlar[RowIndex(haridorlar, u)].role)
                       /\ row.cart_text = CartText(cart)
                       /\ StoredBonus(haridorlar', u)
                             = FAdd(StoredBonus(haridorlar, u), row.bonus_sum)]_vars

\* an order confirmed after the product's price was changed: the row shows
\* the unit price of the time the item was added
C19_Witness ==
    /\ last.ev = "ConfirmOrder" /\ last.out = <<"confirmed">>
    /\ Len(buyurtmalar) > 0 /\ Len(mahsulotlar) > 0
    /\ LET row == buyurtmalar[Len(buyurtmalar)]
       IN  /\ row.total_sum > 0
           /\ \E k \in 1..Len(row.cart_text) :
                 /\ row.cart_text[k][1] = mahsulotlar[1].name
                 /\ row.cart_text[k][3] # mahsulotlar[1].price

\* SpecOrder reaches the initial state of SpecPriceEdit
GroupChosenUnreached == ~GroupChosenState


(***************************************************************************)
(* The administrator's order list beside the order chain.                  *)
(***************************************************************************)
TXT_ORDER_LIST == "Buyurtmalar ro'yxati"

\* get_all_orders: one dict per row below the header, in sheet order
GetAllOrders(osheet) ==
    [i \in 1..Len(osheet) |->
        [row |-> i + 1, user_id |-> osheet[i].user_id, user_name |-> osheet[i].user_name,
         total_sum |-> osheet[i].total_sum, bonus_sum |-> osheet[i].bonus_sum,
         confirmed |-> osheet[i].confirmed]]

\* USER_CACHE after the loop's get_user_data calls for orders[1..n]
RECURSIVE OrderListCache(_, _, _)
OrderListCache(orders, cache, n) ==
    IF n = 0 THEN cache
    ELSE LET before == OrderListCache(orders, cache, n - 1)
         IN  GetUserCache(haridorlar, before, orders[n].user_id)

\* the reply sent for orders[n]: the buttons are attached when the row's
\* "confirmed" cell reads "No"
OrderListReply(orders, n) ==
    IF ~GetUserFound(haridorlar, OrderListCache(orders, USER_CACHE, n - 1), orders[n].user_id)
    THEN "customer_not_found"
    ELSE IF orders[n].confirmed = "No" THEN "order_with_buttons"
    ELSE "order_without_buttons"

\* text == "Buyurtmalar ro'yxati"
AdmMsgOrderList ==
    LET orders == GetAllOrders(buyurtmalar)
        out    == [n \in 1..Len(orders) |-> OrderListReply(orders, n)]
        offer  == {n \in 1..Len(orders) : out[n] = "order_with_buttons"}
    IN  /\ USER_CACHE' = OrderListCache(orders, USER_CACHE, Len(orders))
        /\ shown' = Show(Admin, UNION {{Btn("confirm_order", orders[n].user_id),
                                        Btn("reject_order", orders[n].user_id)} : n \in offer})
        /\ last' = Ev("AdmMsgOrderList", Admin, TXT_ORDER_LIST,
                      IF Len(orders) = 0 THEN <<"no_orders">> ELSE out)
        /\ UNCHANGED <<hist, sheets, dicts, PRODUCT_CACHE, GROUP_CACHE>>

NextOrderList ==
    \/ AdmMsgOrderList
    \/ \E u \in Registered, p \in ProductNames : CbProduct(u, p)
    \/ \E u \in Registered, text \in QtyInputs : StepQuantity(u, text, TRUE)
    \/ \E u \in Registered : CbConfirmCart(u)
    \/ \E u \in Registered, loc \in Locations : LocOrder(u, loc, 0)
    \/ \E u \in Registered : ConfirmOrder(u, 0)
    \/ \E u \in Registered, fail \in FailPoints : RejectOrder(u, fail)

SpecOrderList == InitGroupChosen /\ [][NextOrderList]_vars

\* C20: every row of the order sheet was written by a confirmation that the
\* administrator completed, and the order list sent to the administrator
\* attaches no Confirm/Reject buttons to the row of such an order.
C20_ListOffersNothingForConfirmed ==
    (last.ev = "AdmMsgOrderList" /\ buyurtmalar # <<>>)
        => \A n \in 1..Len(buyurtmalar) : last.out[n] # "order_with_buttons"


(***************************************************************************)
(* Events of a sender outside ADMINS.                                      *)
(***************************************************************************)
\* the callback prefixes routed to handle_admin_callback
AdminCallbackKinds ==
    {"confirm_order", "reject_order", "approve_bonus", "reject_bonus", "approve_edit",
     "reject_edit", "edit_product", "delete_product", "select_group_edit",
     "select_group_add", "delete_group"}

\* handle_admin_callback without the test "user_id not in ADMINS": the press
\* reaches the branch of its prefix (the reject_order branch is the one kept)
NonAdminCallbackNoGate(u, kind, arg) ==
    /\ u \notin {ADMINS[i] : i \in 1..Len(ADMINS)}
    /\ kind \in AdminCallbackKinds
    /\ last' = Ev("NonAdminCallback", u, kind, <<"no_admin_rights">>)
    /\ IF kind = "reject_order" /\ Has(ORDER_CACHE, arg)
       THEN AfterConfirmDels(arg)
       ELSE UNCHANGED <<ORDER_CACHE, CART, USER_SELECTED_GROUP>>
    /\ UNCHANGED <<hist, sheets, USER_STATE, BONUS_REQUESTS, caches, shown>>

\* handle_admin_callback: "if user_id not in ADMINS"
NonAdminCallback(u, kind, arg) ==
    /\ u \notin {ADMINS[i] : i \in 1..Len(ADMINS)}
    /\ kind \in AdminCallbackKinds
    /\ last' = Ev("NonAdminCallback", u, kind, <<"no_admin_rights">>)
    /\ UNCHANGED <<hist, sheets, dicts, caches, shown>>

NextNonAdmin ==
    \/ \E u \in Registered : MsgEdit(u)
    \/ \E u \in Registered, text \in NameInputs : StepEditName(u, text)
    \/ \E u \in Registered, text \in PhoneInputs : StepEditPhone(u, text)
    \/ \E u \in Registered, loc \in Locations : LocEdit(u, loc)
    \/ \E u \in Registered, text \in RoleInputs : StepEditRole(u, text, 0)
    \/ \E u \in Registered : ApproveEdit(u)
    \/ \E u \in Registered : MsgWithdraw(u, TRUE)
    \/ \E u \in Registered : MsgOrder(u)
    \/ \E u \in Registered : ConfirmOrder(u, 0)
    \/ \E u \in Registered, kind \in AdminCallbackKinds,
          arg \in Registered \cup GroupNames : NonAdminCallback(u, kind, arg)

SpecNonAdmin == InitStaged /\ [][NextNonAdmin]_vars


NonAdminEvents ==
    TextEvents \cup {"LocRegister", "LocOrder", "LocEdit", "CbGroup", "CbProduct",
                     "CbConfirmCart", "NonAdminCallback"}

AdminSteps ==
    {"group_name", "product_name", "product_price", "product_bonus", "product_quantity",
     "edit_product_name", "edit_product_price", "edit_product_bonus",
     "edit_product_quantity"}

PendingEdit(sheet, u) ==
    RowIndex(sheet, u) # 0 /\ sheet[RowIndex(sheet, u)].edit_request # EmptyStr

\* C21: an event of a sender outside ADMINS changes no product row and no
\* group row, writes no order row, removes no staged order, no withdrawal
\* request and no pending edit request, and leaves no customer in a step of
\* the administrator track.
C21_NonAdminHasNoAdminEffect ==
    [][last'.ev \in NonAdminEvents
          => /\ mahsulotlar' = mahsulotlar
             /\ guruhlar' = guruhlar
             /\ buyurtmalar' = buyurtmalar
             /\ \A c \in Customers :
                   /\ Has(ORDER_CACHE, c) => Has(ORDER_CACHE', c)
                   /\ Has(BONUS_REQUESTS, c) => Has(BONUS_REQUESTS', c)
                   /\ PendingEdit(haridorlar, c) => PendingEdit(haridorlar', c)
                   /\ Has(USER_STATE', c) => USER_STATE'[c].step \notin AdminSteps]_vars

\* a customer pressed reject_order while an order was staged and an edit
\* request was pending
C21_Witness ==
    /\ last.ev = "NonAdminCallback" /\ last.u = "u1" /\ last.inp = "reject_order"
    /\ Has(ORDER_CACHE, "u1")
    /\ PendingEdit(haridorlar, "u1")

\* a customer pressed approve_bonus while the withdrawal request was pending
C21_WitnessBonus ==
    /\ last.ev = "NonAdminCallback" /\ last.u = "u1" /\ last.inp = "approve_bonus"
    /\ Has(BONUS_REQUESTS, "u1")
    /\ StoredBonus(haridorlar, "u1") > 0


(***************************************************************************)
(* The administrator's create flows: handle_admin (text) and the           *)
(* select_group_add_ button.  The fixed button texts are tested before the *)
(* step, so they are handled the same way in every step.                   *)
(***************************************************************************)
MaxProducts == 2    \* rows the Mahsulotlar sheet may grow to
MaxGroups   == 2    \* rows the Guruhlar sheet may grow to

TXT_ADD_GROUP   == "Yangi guruh qo'shish"
TXT_ADD_PRODUCT == "Mahsulot qo'shish"

GroupNameInputs == {"G1", "G2", ""}

\* save_group
SaveGroup(sheet, cache, group_name) ==
    IF group_name = ""
    THEN [ok |-> FALSE, sheet |-> sheet, cache |-> cache]
    ELSE [ok |-> TRUE, sheet |-> Append(sheet, group_name),
          cache |-> [set |-> FALSE, val |-> {}]]

\* save_product
SaveProduct(sheet, cache, data) ==
    [ok    |-> TRUE,
     sheet |-> Append(sheet, [group_name |-> data.group_name, name |-> data.name,
                              price |-> data.price, bonus_percent |-> data.bonus_percent,
                              quantity |-> data.quantity]),
     cache |-> Del(cache, CacheKey(data.group_name))]

\* the USER_STATE entry of a create flow: keys not yet set hold "" (or 0)
CreateState(step) ==
    [step |-> step, product_name |-> "", product_price |-> 0, product_bonus |-> 0]

\* text == "Yangi guruh qo'shish"
AdmMsgAddGroup ==
    /\ USER_STATE' = Put(USER_STATE, Admin, CreateState("group_name"))
    /\ last' = Ev("AdmMsgAddGroup", Admin, TXT_ADD_GROUP, <<"ask_group_name">>)
    /\ UNCHANGED <<hist, sheets, CART, BONUS_REQUESTS, USER_SELECTED_GROUP, ORDER_CACHE,
                   caches, shown>>

\* text == "Mahsulot qo'shish"
AdmMsgAddProduct ==
    /\ GROUP_CACHE' = GetGroupsCache(guruhlar, GROUP_CACHE)
    /\ LET groups == GetGroups(guruhlar, GROUP_CACHE)
       IN  IF groups = {}
           THEN /\ shown' = shown
                /\ last' = Ev("AdmMsgAddProduct", Admin, TXT_ADD_PRODUCT, <<"no_groups">>)
           ELSE /\ shown' = Show(Admin, {Btn("select_group_add", g) : g \in groups})
                /\ last' = Ev("AdmMsgAddProduct", Admin, TXT_ADD_PRODUCT, <<"choose_group">>)
    /\ UNCHANGED <<hist, sheets, dicts, USER_CACHE, PRODUCT_CACHE>>

\* data.startswith("select_group_add_")
AdmSelectGroupAdd(group_name) ==
    /\ Btn("select_group_add", group_name) \in shown[Admin]
    /\ USER_SELECTED_GROUP' = Put(USER_SELECTED_GROUP, Admin, group_name)
    /\ USER_STATE' = Put(USER_STATE, Admin, CreateState("product_name"))
    /\ last' = Ev("AdmSelectGroupAdd", Admin, group_name, <<"ask_product_name">>)
    /\ UNCHANGED <<hist, sheets, CART, BONUS_REQUESTS, ORDER_CACHE, caches, shown>>

\* state["step"] == "group_name"
AdmGroupName(text) ==
    /\ InStep(Admin, "group_name")
    /\ IF text = ""
       THEN /\ last' = Ev("AdmGroupName", Admin, text, <<"group_name_empty">>)
            /\ UNCHANGED <<guruhlar, GROUP_CACHE, USER_STATE>>
       ELSE LET res == SaveGroup(guruhlar, GROUP_CACHE, text)
            IN  /\ Len(guruhlar) < MaxGroups
                /\ guruhlar' = res.sheet
                /\ GROUP_CACHE' = res.cache
                /\ USER_STATE' = Del(USER_STATE, Admin)
                /\ last' = Ev("AdmGroupName", Admin, text, <<"group_added">>)
    /\ UNCHANGED <<hist, haridorlar, mahsulotlar, buyurtmalar, CART, BONUS_REQUESTS,
                   USER_SELECTED_GROUP, ORDER_CACHE, USER_CACHE, PRODUCT_CACHE, shown>>

\* state["step"] == "product_name"
AdmProductName(text) ==
    /\ InStep(Admin, "product_name")
    /\ IF text = ""
       THEN /\ USER_STATE' = USER_STATE
            /\ last' = Ev("AdmProductName", Admin, text, <<"product_name_empty">>)
       ELSE /\ USER_STATE' = [USER_STATE EXCEPT ![Admin].product_name = text,
                                                ![Admin].step = "product_price"]
            /\ last' = Ev("AdmProductName", Admin, text, <<"ask_product_price">>)
    /\ UNCHANGED <<hist, sheets, CART, BONUS_REQUESTS, USER_SELECTED_GROUP, ORDER_CACHE,
                   caches, shown>>

\* state["step"] == "product_price"
AdmProductPrice(text) ==
    /\ InStep(Admin, "product_price")
    /\ IF ~IsFloat(text)
       THEN /\ USER_STATE' = USER_STATE
            /\ last' = Ev("AdmProductPrice", Admin, text, <<"price_not_number">>)
       ELSE IF FloatOf(text) <= 0
       THEN /\ USER_STATE' = USER_STATE
            /\ last' = Ev("AdmProductPrice", Admin, text, <<"price_not_positive">>)
       ELSE /\ USER_STATE' = [USER_STATE EXCEPT ![Admin].product_price = FloatOf(text),
                                                ![Admin].step = "product_bonus"]
            /\ last' = Ev("AdmProductPrice", Admin, text, <<"ask_product_bonus">>)
    /\ UNCHANGED <<hist, sheets, CART, BONUS_REQUESTS, USER_SELECTED_GROUP, ORDER_CACHE,
                   caches, shown>>

\* state["step"] == "product_bonus"
AdmProductBonus(text) ==
    /\ InStep(Admin, "product_bonus")
    /\ IF ~IsFloat(text)
       THEN /\ USER_STATE' = USER_STATE
            /\ last' = Ev("AdmProductBonus", Admin, text, <<"percent_not_number">>)
       ELSE IF FloatOf(text) < 0
       THEN /\ USER_STATE' = USER_STATE
            /\ last' = Ev("AdmProductBonus", Admin, text, <<"percent_negative">>)
       ELSE /\ USER_STATE' = [USER_STATE EXCEPT ![Admin].product_bonus = FloatOf(text),
                                                ![Admin].step = "product_quantity"]
            /\ last' = Ev("AdmProductBonus", Admin, text, <<"ask_product_quantity">>)
    /\ UNCHANGED <<hist, sheets, CART, BONUS_REQUESTS, USER_SELECTED_GROUP, ORDER_CACHE,
                   caches, shown>>

\* state["step"] == "product_quantity": save_product, then the two "del"
\* statements (a missing group selection raises KeyError after the session
\* entry is gone)
AdmProductQuantity(text) ==
    /\ InStep(Admin, "product_quantity")
    /\ IF ~IsFloat(text)
       THEN /\ last' = Ev("AdmProductQuantity", Admin, text, <<"quantity_not_number">>)
            /\ UNCHANGED <<mahsulotlar, PRODUCT_CACHE, USER_STATE, USER_SELECTED_GROUP>>
       ELSE IF FloatOf(text) < 0
       THEN /\ last' = Ev("AdmProductQuantity", Admin, text, <<"quantity_negative">>)
            /\ UNCHANGED <<mahsulotlar, PRODUCT_CACHE, USER_STATE, USER_SELECTED_GROUP>>
       ELSE LET state == USER_STATE[Admin]
                data  == [group_name    |-> IF Has(USER_SELECTED_GROUP, Admin)
                                            THEN USER_SELECTED_GROUP[Admin] ELSE "",
                          name          |-> state.product_name,
                          price         |-> state.product_price,
                          bonus_percent |-> state.product_bonus,
                          quantity      |-> FloatOf(text)]
                res   == SaveProduct(mahsulotlar, PRODUCT_CACHE, data)
            IN  /\ Len(mahsulotlar) < MaxProducts
                /\ mahsulotlar' = res.sheet
                /\ PRODUCT_CACHE' = res.cache
                /\ USER_STATE' = Del(USER_STATE, Admin)
                /\ USER_SELECTED_GROUP' = Del(USER_SELECTED_GROUP, Admin)
                /\ last' = Ev("AdmProductQuantity", Admin, text,
                              <<"product_added">>
                                 \o (IF Has(USER_SELECTED_GROUP, Admin) THEN <<>>
                                     ELSE <<"error">>))
    /\ UNCHANGED <<hist, haridorlar, guruhlar, buyurtmalar, CART, BONUS_REQUESTS,
                   ORDER_CACHE, USER_CACHE, GROUP_CACHE, shown>>

\* the administrator's create flows
NextCreate ==
    \/ AdmMsgAddGroup
    \/ AdmMsgAddProduct
    \/ \E g \in GroupNameInputs \ {""} : AdmSelectGroupAdd(g)
    \/ \E text \in GroupNameInputs : AdmGroupName(text)
    \/ \E text \in ProductNameInputs : AdmProductName(text)
    \/ \E text \in PriceInputs : AdmProductPrice(text)
    \/ \E text \in PercentInputs : AdmProductBonus(text)
    \/ \E text \in StockInputs : AdmProductQuantity(text)

NextCatalog == NextCreate \/ NextProductEdit

SpecCatalog == Init /\ [][NextCatalog]_vars


\* the events of handle_admin, which handles the administrator's texts
AdminTextEvents ==
    {"AdmMsgAddGroup", "AdmMsgAddProduct", "AdmMsgEditProducts", "AdmMsgOrderList",
     "AdmGroupName", "AdmProductName", "AdmProductPrice", "AdmProductBonus",
     "AdmProductQuantity", "AdmEditProductName", "AdmEditProductPrice",
     "AdmEditProductBonus", "AdmEditProductQuantity"}

PriceSteps    == {"product_price", "edit_product_price"}
NumberSteps   == PriceSteps \cup {"product_bonus", "edit_product_bonus",
                                  "product_quantity", "edit_product_quantity"}

\* the text is a number the step accepts
InRange(step, text) ==
    IsFloat(text) /\ (IF step \in PriceSteps THEN FloatOf(text) > 0 ELSE FloatOf(text) >= 0)

ValidProduct(row) == row.price > 0 /\ row.bonus_percent >= 0 /\ row.quantity >= 0

\* C22: every product row the create flow or the edit flow leaves in the
\* sheet has price > 0, bonus percent >= 0 and quantity >= 0, and a text
\* sent in a price, bonus or quantity step that is not a number in range
\* leaves the administrator in that step.
C22_ProductStepsValidate ==
    [][/\ \A i \in 1..Len(mahsulotlar') : ValidProduct(mahsulotlar'[i])
       /\ \A s \in NumberSteps :
             (/\ StepIs(USER_STATE, Admin, s)
              /\ last'.ev \in AdminTextEvents
              /\ ~InRange(s, last'.inp))
                => StepIs(USER_STATE', Admin, s)]_vars


\* C23: every row of the product sheet holds a bonus percentage from 0 to
\* 100.
C23_BonusPercentWithin100 ==
    \A i \in 1..Len(mahsulotlar) :
        mahsulotlar[i].bonus_percent >= 0 /\ mahsulotlar[i].bonus_percent <= 100

\* C24: no two rows of the product sheet hold the same name in the same
\* group.
C24_ProductNameUniqueInGroup ==
    \A i, j \in 1..Len(mahsulotlar) :
        (mahsulotlar[i].group_name = mahsulotlar[j].group_name
            /\ mahsulotlar[i].name = mahsulotlar[j].name) => i = j

\* C25: no two rows of the group sheet hold the same name.
C25_GroupNameUnique ==
    \A i, j \in 1..Len(guruhlar) : guruhlar[i] = guruhlar[j] => i = j


\* C26: an event that ends with the network-error reply leaves the
\* conversation steps, the carts, the group selections and the staged
\* orders as they were before it.
C26_SendFailureKeepsSession ==
    [][last'.out = <<"network_error">>
          => /\ USER_STATE' = USER_STATE
             /\ CART' = CART
             /\ USER_SELECTED_GROUP' = USER_SELECTED_GROUP
             /\ ORDER_CACHE' = ORDER_CACHE]_vars


(***************************************************************************)
(* Events no branch of the handlers answers.                               *)
(***************************************************************************)
LocationSteps == {"location", "order_location", "edit_location"}

\* the texts handle_message compares with before it looks at the step
ButtonTexts ==
    {TXT_SAVE, TXT_EDIT, TXT_ORDER, TXT_WITHDRAW, "Mening buyurtmalarim", "Umumiy Bonus",
     "Admin bilan bog'lanish"}

FreeTexts == {"Salom"}

\* handle_location when the "if" at its top is false: the function ends
LocIgnored(u, loc) ==
    /\ ~(Has(USER_STATE, u) /\ USER_STATE[u].step \in LocationSteps)
    /\ last' = Ev("LocIgnored", u, FormatAddress(loc), <<>>)
    /\ UNCHANGED <<hist, sheets, dicts, caches, shown>>

\* handle_message of a registered customer when no branch of the if/elif
\* chain matches: no session entry, or a step the chain has no test for
MsgUnhandled(u, text) ==
    /\ Found(u)
    /\ text \notin ButtonTexts
    /\ IF ~Has(USER_STATE, u) THEN TRUE
       ELSE IF USER_STATE[u].step = "edit_location" THEN text # "/skip"
       ELSE USER_STATE[u].step \in {"location", "order_location"}
    /\ USER_CACHE' = Cache1(u)
    /\ last' = Ev("MsgUnhandled", u, text, <<>>)
    /\ UNCHANGED <<hist, sheets, dicts, PRODUCT_CACHE, GROUP_CACHE, shown>>

(***************************************************************************)
(* The /start command.                                                     *)
(***************************************************************************)
\* start: get_user_data, then the menu of the sender's kind
CmdStart(u) ==
    /\ USER_CACHE' = Cache1(u)
    /\ last' = Ev("CmdStart", u, "/start",
                  IF u = Admin THEN <<"welcome_admin">>
                  ELSE IF Found(u) THEN <<"welcome">>
                  ELSE <<"register_first">>)
    /\ UNCHANGED <<hist, sheets, dicts, PRODUCT_CACHE, GROUP_CACHE, shown>>

NextReplies ==
    \/ NextOrderList
    \/ \E u \in Customers \cup {Admin} : CmdStart(u)
    \/ \E u \in Customers, loc \in Locations : LocIgnored(u, loc)
    \/ \E u \in Registered, text \in FreeTexts : MsgUnhandled(u, text)

SpecReplies == InitGroupChosen /\ [][NextReplies]_vars

\* C27: every event is answered with exactly one message to its sender.
C27_ExactlyOneReply ==
    last.ev \in (NonAdminEvents \cup AdminTextEvents \cup {"LocIgnored", "MsgUnhandled"})
        => Len(last.out) = 1

\* C28: after /start is handled its sender has no conversation step
\* pending.
C28_StartLeavesIdle ==
    last.ev = "CmdStart" => ~Has(USER_STATE, last.u)


\* C29: a confirm for a customer whose stored role is not "Usta" leaves the
\* customer's stored bonus as it was, and no row of the customer sheet ever
\* holds a negative bonus.
C29_OnlyUstaAccrues ==
    [][/\ \A i \in 1..Len(haridorlar') : haridorlar'[i].bonus >= 0
       /\ \A u \in Customers :
             (/\ last'.ev = "ConfirmOrder" /\ last'.u = u
              /\ RowIndex(haridorlar, u) # 0
              /\ haridorlar[RowIndex(haridorlar, u)].role # "Usta")
                => StoredBonus(haridorlar', u) = StoredBonus(haridorlar, u)]_vars

\* an order with a positive total was confirmed for a customer whose stored
\* role is "Uy egasi"
C29_Witness ==
    /\ last.ev = "ConfirmOrder" /\ last.u = "u1" /\ Head(last.out) = "confirmed"
    /\ haridorlar[RowIndex(haridorlar, "u1")].role = "Uy egasi"
    /\ buyurtmalar # <<>>
    /\ buyurtmalar[Len(buyurtmalar)].total_sum > 0
    /\ buyurtmalar[Len(buyurtmalar)].bonus_sum = 0


(***************************************************************************)
(* The edit chain with a name that holds the separator of the request      *)
(* string.                                                                 *)
(***************************************************************************)
PipeNameInputs == {"Bek", "Aziz|Bek"}

NextApprove ==
    \/ \E u \in Registered : MsgEdit(u)
    \/ \E u \in Registered, text \in PipeNameInputs : StepEditName(u, text)
    \/ \E u \in Registered, text \in PhoneInputs : StepEditPhone(u, text)
    \/ \E u \in Registered, loc \in Locations : LocEdit(u, loc)
    \/ \E u \in Registered, text \in RoleInputs : StepEditRole(u, text, 0)
    \/ \E u \in Registered : ApproveEdit(u)

SpecApprove == Init /\ [][NextApprove]_vars

\* C30: an approve press on a pending edit request leaves the stored name,
\* phone, address and role equal to the four values the customer proposed,
\* clears the request and keeps the stored bonus; an approve press with no
\* request pending changes no row.
C30_ApproveAppliesProposal ==
    [][\A u \in Customers :
          (last'.ev = "ApproveEdit" /\ last'.u = u /\ RowIndex(haridorlar, u) # 0)
             => IF PendingEdit(haridorlar, u)
                THEN /\ LET req == haridorlar[RowIndex(haridorlar, u)].edit_request
                        IN  Profile(haridorlar', u)
                               = [name |-> req[1], phone |-> req[2],
                                  address |-> req[3], role |-> req[4]]
                     /\ ~PendingEdit(haridorlar', u)
                     /\ StoredBonus(haridorlar', u) = StoredBonus(haridorlar, u)
                ELSE haridorlar' = haridorlar]_vars

(***************************************************************************)
(* Roles of the stored customer records.                                   *)
(***************************************************************************)
RoleSteps == {"role", "edit_role"}

\* C31: every row the registration chain or the edit chain writes to the
\* Customers sheet has one of the four roles, and a text outside the four
\* roles sent by a user in step role or step edit_role is answered with the
\* role re-prompt and leaves the user's session entry as it was.
C31_RoleIsEnumerated ==
    [][\A u \in Customers :
          (last'.u = u /\ last'.ev \in TextEvents)
             => /\ \A i \in 1..Len(haridorlar') :
                      (i > Len(haridorlar) \/ haridorlar'[i] # haridorlar[i])
                         => haridorlar'[i].role \in ValidRoles
                /\ (/\ Has(USER_STATE, u) /\ USER_STATE[u].step \in RoleSteps
                    /\ last'.inp \notin ValidRoles)
                      => /\ Has(USER_STATE', u)
                         /\ USER_STATE'[u] = USER_STATE[u]
                         /\ last'.out = <<"role_invalid">>]_vars

\* the first half of C31 alone
WrittenRolesValid ==
    [][\A i \in 1..Len(haridorlar') :
          (i > Len(haridorlar) \/ haridorlar'[i] # haridorlar[i])
             => haridorlar'[i].role \in ValidRoles]_vars

(***************************************************************************)
(* Deleting a product: delete_product and the delete_product_ button, and  *)
(* the administrator's product writes next to a customer's listings.       *)
(***************************************************************************)
\* delete_product with the cached list of the group left in place
DeleteProductKeepsCache(sheet, cache, product_name, group_name) ==
    LET i == UpdateProductIndex(sheet, product_name, group_name)
    IN  IF i # 0
        THEN [ok |-> TRUE, sheet |-> RemoveAt(sheet, i), cache |-> cache]
        ELSE [ok |-> FALSE, sheet |-> sheet, cache |-> cache]

\* delete_product: the first row of that name and group is deleted and the
\* cache entry under the group name is dropped
DeleteProduct(sheet, cache, product_name, group_name) ==
    LET i == UpdateProductIndex(sheet, product_name, group_name)
    IN  IF i # 0
        THEN [ok |-> TRUE, sheet |-> RemoveAt(sheet, i), cache |-> Del(cache, group_name)]
        ELSE [ok |-> FALSE, sheet |-> sheet, cache |-> cache]

\* data.startswith("delete_product_")
AdmDeleteProduct(product_name) ==
    /\ Btn("delete_product", product_name) \in shown[Admin]
    /\ LET group_name == IF Has(USER_SELECTED_GROUP, Admin)
                         THEN USER_SELECTED_GROUP[Admin] ELSE ""
           res        == DeleteProduct(mahsulotlar, PRODUCT_CACHE, product_name, group_name)
       IN  /\ mahsulotlar' = res.sheet
           /\ PRODUCT_CACHE' = res.cache
           /\ last' = Ev("AdmDeleteProduct", Admin, product_name,
                         <<IF res.ok THEN "product_deleted" ELSE "product_not_deleted">>)
    /\ UNCHANGED <<hist, haridorlar, guruhlar, buyurtmalar, dicts, USER_CACHE, GROUP_CACHE,
                   shown>>

CatalogGroups == GroupNameInputs \ {""}
CatalogNames  == {"Cement", "Sand"}

\* add, edit and delete over two groups and two product names with one
\* accepted input at each number step, and the registered customer's group
\* listing
NextProducts ==
    \/ AdmMsgAddProduct
    \/ \E g \in CatalogGroups : AdmSelectGroupAdd(g)
    \/ \E text \in CatalogNames : AdmProductName(text)
    \/ AdmProductPrice("60000")
    \/ AdmProductBonus("20")
    \/ AdmProductQuantity("100")
    \/ AdmMsgEditProducts
    \/ \E g \in CatalogGroups : AdmSelectGroupEdit(g)
    \/ \E p \in CatalogNames : AdmEditProduct(p)
    \/ \E text \in CatalogNames : AdmEditProductName(text)
    \/ AdmEditProductPrice("60000")
    \/ AdmEditProductBonus("20")
    \/ AdmEditProductQuantity("100")
    \/ \E p \in CatalogNames : AdmDeleteProduct(p)
    \/ \E u \in Registered, g \in CatalogGroups : CbGroup(u, g)

\* two groups, the second one empty, after the registered customer sent the
\* order text and was shown the group buttons
InitTwoGroups ==
    /\ haridorlar = InitHaridorlar
    /\ mahsulotlar = InitMahsulotlar
    /\ guruhlar = <<"G1", "G2">>
    /\ buyurtmalar = <<>>
    /\ USER_STATE = EmptyDict
    /\ CART = Put(EmptyDict, "u1", <<>>)
    /\ BONUS_REQUESTS = EmptyDict
    /\ USER_SELECTED_GROUP = EmptyDict
    /\ ORDER_CACHE = EmptyDict
    /\ USER_CACHE = Put(EmptyDict, "u1", RowToUser(InitHaridorlar[1]))
    /\ PRODUCT_CACHE = EmptyDict
    /\ GROUP_CACHE = [set |-> TRUE, val |-> {"G1", "G2"}]
    /\ shown = [r \in Customers \cup {Admin} |->
                  IF r = "u1" THEN {Btn("group", "G1"), Btn("group", "G2")} ELSE {}]
    /\ hist = [edit_orig |-> [u \in Customers |-> <<>>],
               staged    |-> [u \in Customers |-> 0]]
    /\ last = Ev("MsgOrder", "u1", TXT_ORDER, <<"choose_group">>)

SpecProducts == InitTwoGroups /\ [][NextProducts]_vars

\* C32: after every administrator product write the next listing of every
\* group returns the rows the Products sheet holds for that group.
C32_ProductCacheCoherent ==
    \A g \in CatalogGroups \cup {""} :
        GetProducts(mahsulotlar, PRODUCT_CACHE, g) = SelectSeq2(mahsulotlar, g)

\* a listing of G1 after its only product was deleted shows no product
C32_Witness ==
    /\ last.ev = "AdmSelectGroupEdit" /\ last.inp = "G1"
    /\ last.out = <<"no_products">>
    /\ mahsulotlar = <<>>
    /\ Has(PRODUCT_CACHE, "G1")

\* a listing of G1 after the price of its product was edited shows the new price
C32_WitnessEdited ==
    /\ last.ev = "CbGroup" /\ last.inp = "G1"
    /\ Has(PRODUCT_CACHE, "G1") /\ Len(PRODUCT_CACHE["G1"]) = 1
    /\ PRODUCT_CACHE["G1"][1].price = 60000
    /\ mahsulotlar # InitMahsulotlar

\* C33: when the administrator answers every step of the product edit flow
\* with the product's current value (name, price, bonus percent, quantity),
\* the last step leaves the Products sheet as it was, whatever buttons the
\* administrator pressed during the flow.
C33_ReenterIsNoOp ==
    [][(/\ last'.ev = "AdmEditProductQuantity"
        /\ InStep(Admin, "edit_product_quantity")
        /\ IsFloat(last'.inp)
        /\ USER_STATE[Admin].new_product_name = USER_STATE[Admin].current_name
        /\ USER_STATE[Admin].new_price = USER_STATE[Admin].current_price
        /\ USER_STATE[Admin].new_bonus_percent = USER_STATE[Admin].current_bonus_percent
        /\ FloatOf(last'.inp) = USER_STATE[Admin].current_quantity)
          => mahsulotlar' = mahsulotlar]_vars

\* C34: the Orders row a confirm_order press appends has the line items and
\* the total_sum of the staged order as they were computed when the
\* customer sent the delivery location.
C34_RowEqualsStagedOrder ==
    [][\A u \in Customers :
          (/\ last'.ev = "ConfirmOrder" /\ last'.u = u
           /\ Has(ORDER_CACHE, u)
           /\ Len(buyurtmalar') = Len(buyurtmalar) + 1)
             => /\ buyurtmalar'[Len(buyurtmalar')].cart_text = ORDER_CACHE[u].cart_text
                /\ buyurtmalar'[Len(buyurtmalar')].total_sum = ORDER_CACHE[u].total_sum]_vars

\* C35: a customer whose step is quantity or order_location has an entry in
\* CART.
C35_CartPresentInCartSteps ==
    \A u \in Customers :
        (Has(USER_STATE, u) /\ USER_STATE[u].step \in {"quantity", "order_location"})
           => Has(CART, u)

\* C36: a customer's stored bonus goes down only in an approve_bonus press
\* made while a withdrawal request of that customer is pending; an
\* approve_bonus press for a customer without a pending request leaves the
\* stored bonus as it was.
C36_BalanceDropsOnlyOnPendingApprove ==
    [][\A u \in Customers :
          (RowIndex(haridorlar, u) # 0 /\ RowIndex(haridorlar', u) # 0)
             => /\ StoredBonus(haridorlar', u) < StoredBonus(haridorlar, u)
                      => /\ last'.ev = "ApproveBonus" /\ last'.u = u
                         /\ Has(BONUS_REQUESTS, u)
                /\ (last'.ev = "ApproveBonus" /\ last'.u = u /\ ~Has(BONUS_REQUESTS, u))
                      => StoredBonus(haridorlar', u) = StoredBonus(haridorlar, u)]_vars

(***************************************************************************)
(* A second order staged while the first one waits for the administrator.  *)
(* Both messages carry the callback data confirm_order_<user id>.          *)
(***************************************************************************)
\* a press of the Confirm button under the message of the order staged in
\* InitStaged: the button is there until a confirm went through
ConfirmFirstMessage(u) ==
    /\ buyurtmalar = <<>>
    /\ ConfirmOrder(u, 0)

NextSecondOrder ==
    \/ \E u \in Registered : MsgOrder(u)
    \/ \E u \in Registered, g \in GroupNames : CbGroup(u, g)
    \/ \E u \in Registered, p \in ProductNames : CbProduct(u, p)
    \/ \E u \in Registered, text \in QtyInputs : StepQuantity(u, text, TRUE)
    \/ \E u \in Registered : CbConfirmCart(u)
    \/ \E u \in Registered, loc \in Locations : LocOrder(u, loc, 0)
    \/ \E u \in Registered : ConfirmFirstMessage(u)

SpecSecondOrder == InitStaged /\ [][NextSecondOrder]_vars

\* C37: when the customer staged a second order before the first one was
\* decided, a press of the Confirm button under the first order's message
\* appends a row with the line items and the total of the first order.
C37_ConfirmPersistsPressedOrder ==
    [][\A u \in Registered :
          (/\ last'.ev = "ConfirmOrder" /\ last'.u = u
           /\ hist.staged[u] = 2
           /\ Len(buyurtmalar') = Len(buyurtmalar) + 1)
             => /\ buyurtmalar'[Len(buyurtmalar')].cart_text = CartText(<<StagedItem>>)
                /\ buyurtmalar'[Len(buyurtmalar')].total_sum = TotalSum(<<StagedItem>>)]_vars

\* the five fields of a customer dict that the handlers show
Shown5(d) ==
    [name |-> d.name, phone |-> d.phone, address |-> d.address, role |-> d.role,
     bonus |-> d.bonus]

\* C38: for every user in USER_CACHE the cached name, phone, address, role
\* and bonus are those a lookup of the user in the Customers sheet returns.
C38_UserCacheCoherent ==
    \A u \in DOMAIN USER_CACHE :
        /\ RowIndex(haridorlar, u) # 0
        /\ Shown5(USER_CACHE[u]) = Shown5(RowToUser(haridorlar[RowIndex(haridorlar, u)]))

(***************************************************************************)
(* The "delete group" menu and its buttons.  handle_admin_callback is      *)
(* registered for the prefix delete_group_ but has no branch for it.       *)
(***************************************************************************)
\* the menu text; the source writes its apostrophe as U+2018
TXT_DELETE_GROUP == "Guruh o'chirish"

\* delete_group: the first row of that name is deleted, the group cache is
\* reset and the cached product list of the group is dropped
DeleteGroup(sheet, gcache, pcache, group_name) ==
    LET hits == {i \in 1..Len(sheet) : sheet[i] = group_name}
        i    == IF hits = {} THEN 0 ELSE CHOOSE k \in hits : \A j \in hits : k <= j
    IN  IF i # 0
        THEN [ok |-> TRUE, sheet |-> RemoveAt(sheet, i),
              gcache |-> [set |-> FALSE, val |-> {}], pcache |-> Del(pcache, group_name)]
        ELSE [ok |-> FALSE, sheet |-> sheet, gcache |-> gcache, pcache |-> pcache]

\* text == "Guruh o'chirish"
AdmMsgDeleteGroup ==
    /\ GROUP_CACHE' = GetGroupsCache(guruhlar, GROUP_CACHE)
    /\ LET groups == GetGroups(guruhlar, GROUP_CACHE)
       IN  IF groups = {}
           THEN /\ shown' = shown
                /\ last' = Ev("AdmMsgDeleteGroup", Admin, TXT_DELETE_GROUP, <<"no_groups">>)
           ELSE /\ shown' = Show(Admin, {Btn("delete_group", g) : g \in groups})
                /\ last' = Ev("AdmMsgDeleteGroup", Admin, TXT_DELETE_GROUP, <<"choose_group">>)
    /\ UNCHANGED <<hist, sheets, dicts, USER_CACHE, PRODUCT_CACHE>>

\* a delete_group_ press handled by a branch that calls delete_group
AdmDeleteGroupCallsDelete(group_name) ==
    /\ Btn("delete_group", group_name) \in shown[Admin]
    /\ LET res == DeleteGroup(guruhlar, GROUP_CACHE, PRODUCT_CACHE, group_name)
       IN  /\ guruhlar' = res.sheet
           /\ GROUP_CACHE' = res.gcache
           /\ PRODUCT_CACHE' = res.pcache
    /\ last' = Ev("AdmDeleteGroup", Admin, group_name, <<"group_deleted">>)
    /\ UNCHANGED <<hist, haridorlar, mahsulotlar, buyurtmalar, dicts, USER_CACHE, shown>>

\* data.startswith("delete_group_"): no branch of the if/elif chain matches,
\* the handler answers the query and returns
AdmDeleteGroup(group_name) ==
    /\ Btn("delete_group", group_name) \in shown[Admin]
    /\ last' = Ev("AdmDeleteGroup", Admin, group_name, <<>>)
    /\ UNCHANGED <<hist, sheets, dicts, caches, shown>>

\* the administrator's catalog flows and the delete group menu
NextGroups ==
    \/ NextCatalog
    \/ AdmMsgDeleteGroup
    \/ \E g \in CatalogGroups : AdmDeleteGroup(g)

SpecGroups == Init /\ [][NextGroups]_vars

\* C39: no step removes a row of the Groups sheet, and a delete_group_ press
\* leaves the Groups sheet, the group cache, the product cache and every
\* session dictionary as they were.
C39_GroupsNeverRemoved ==
    [][/\ Len(guruhlar') >= Len(guruhlar)
       /\ \A i \in 1..Len(guruhlar) : guruhlar'[i] = guruhlar[i]
       /\ last'.ev = "AdmDeleteGroup"
             => /\ guruhlar' = guruhlar
                /\ GROUP_CACHE' = GROUP_CACHE
                /\ PRODUCT_CACHE' = PRODUCT_CACHE
                /\ dicts' = dicts]_vars

\* a delete_group_ press for a group that is still in the sheet, made while
\* the administrator is in a flow
C39_Witness ==
    /\ last.ev = "AdmDeleteGroup"
    /\ \E i \in 1..Len(guruhlar) : guruhlar[i] = last.inp
    /\ Has(USER_STATE, Admin)

====
